---- MODULE Spec2Model ----
(***************************************************************************)
(* Model of the PR review skill (.agent/skills/pr_review/pr_skill.py):     *)
(* the sync verifier (_verify_clean_git, _check_local_state), the          *)
(* publisher (safe_push), the reviewer trigger (trigger_review), the       *)
(* status check (check_status) and the poll loop                           *)
(* (_poll_for_main_reviewer).                                              *)
(*                                                                         *)
(* One run of one command is modelled.  Init is the state after            *)
(* ReviewManager.__init__ has returned; every external call the code makes *)
(* (a subprocess, a platform API call, a sleep) is one step, together with *)
(* the pure code that follows it up to the next external call.             *)
(* Strings built with f-strings are modelled as tuples of their fragments. *)
(* Timestamps are points of a logical clock.                               *)
(***************************************************************************)
EXTENDS Integers, Sequences, FiniteSets, TLC

VARIABLES
    command,          \* sub-command chosen on the command line
    local,            \* self.local
    offline,          \* self.offline
    wait_seconds,     \* --wait
    since_iso,        \* --since of the status command ("" when absent)
    git,              \* facts of the working copy the git commands report
    pc,               \* position of the run
    trace,            \* external operations performed so far, in order
    issue_comments,   \* platform: general comments of the change request
    review_comments,  \* platform: inline comments of the change request
    reviews,          \* platform: review decisions of the change request
    now,              \* logical clock
    env_events,       \* number of events other parties posted during the run
    is_safe_msg,      \* trigger_review: (is_safe, msg) of _check_local_state (<<>> is None)
    rev_list,         \* _check_local_state: rev_list (<<>> is None)
    start_time,       \* trigger_review: start_time
    triggered_bots,   \* trigger_review: triggered_bots
    res,              \* trigger_review: res, the agent's completed process (<<>> is None)
    local_review_item,\* trigger_review: local_review_item (<<>> is None)
    status_data,      \* status data of the last check (<<>> is None)
    attempt,          \* _poll_for_main_reviewer: attempt
    sleeps,           \* number of time.sleep calls started
    stdout_json,      \* structured results printed on stdout, in order
    exit_code,        \* process exit code (-1 while running)
    stderr,           \* warnings and exception reports written on stderr, in order
    history           \* one record per earlier process of this review cycle

vars == <<command, local, offline, wait_seconds, since_iso, git, pc, trace,
          issue_comments, review_comments, reviews, now, env_events,
          is_safe_msg, rev_list, start_time, triggered_bots, res,
          local_review_item, status_data,
          attempt, sleeps, stdout_json, exit_code, stderr, history>>

(***************************************************************************)
(* Bounds of the model.                                                    *)
(***************************************************************************)
\* Largest number of commits a branch is ahead of or behind its upstream.
MaxDivergence == 1
\* Largest number of events other parties post during one run.
MaxEnvEvents == 1
\* Largest number of status processes the caller starts to resume one
\* trigger_review whose poll timed out or was interrupted.
MaxResumes == 2
\* POLL_MAX_ATTEMPTS, read from PR_REVIEW_POLL_MAX_ATTEMPTS (at least 1,
\* 20 when unset).
POLL_MAX_ATTEMPTS == 2
\* Largest number of reviews and comments together, and largest timestamp,
\* of the change requests the status command is applied to.
MaxItems == 3
MaxTime == 2

(***************************************************************************)
(* Program constants.                                                      *)
(***************************************************************************)
REVIEW_COMMANDS ==
    <<"/gemini review", "@coderabbitai review", "@sourcery-ai review",
      "/review", "@ellipsis review this">>

GIT_SHORT_TIMEOUT == 10
GIT_FETCH_TIMEOUT == 30
GIT_PUSH_TIMEOUT == 60
AGENT_TIMEOUT == 600

DEFAULT_VALIDATION_REVIEWER == "gemini-code-assist[bot]"
OTHER_REVIEWER == "coderabbitai[bot]"
SELF_USER == "agent-user"
SYNTHETIC_USER == "gemini-cli-review"
TOKEN == "ghp_secret"

ACTION_INSTRUCTIONS == "ANALYZE feedback -> FIX code -> DO NOT PUSH YET. ..."
RATE_LIMIT_INSTRUCTION == " If main reviewer says it just became rate-limited, ..."

None == <<>>
NoTime == -1

(***************************************************************************)
(* Exceptions and their text.                                              *)
(***************************************************************************)
SubprocessErrors == {"CalledProcessError", "TimeoutExpired", "FileNotFoundError"}

\* str(e) of the exception a subprocess.run(cmd, timeout=t) call raised.
StrExc(kind, cmd, t) ==
    CASE kind = "CalledProcessError" ->
           <<"Command '", cmd, "' returned non-zero exit status ", "1", ".">>
      [] kind = "TimeoutExpired" ->
           <<"Command '", cmd, "' timed out after ", ToString(t), " seconds">>
      [] kind = "FileNotFoundError" ->
           <<"[Errno 2] No such file or directory: '", cmd, "'">>

\* ReviewManager._mask_token: every occurrence of the token is redacted.
_mask_token(text) ==
    [i \in 1..Len(text) |-> IF text[i] = TOKEN THEN "********" ELSE text[i]]

(***************************************************************************)
(* Platform data.  An item of feedback is a record                         *)
(* [type, user, state, body, created_at, updated_at]; a field the source   *)
(* leaves out of an item's dict holds "None" (state), <<>> (body) or       *)
(* NoTime (a timestamp).                                                   *)
(***************************************************************************)
Review(u, s, t) == [user |-> u, state |-> s, submitted_at |-> t]
Comment(u, b, c, t) == [user |-> u, body |-> b, created_at |-> c, updated_at |-> t]

\* datetime.isoformat: the time t written in ISO 8601, with the suffix "Z",
\* the offset "+00:00" or, for a naive time, nothing.
Iso(t, suffix) == "T" \o ToString(t) \o suffix

\* Review histories the change request may already hold when the run starts.
InitReviews ==
    { <<>>,
      <<Review(DEFAULT_VALIDATION_REVIEWER, "APPROVED", 1)>>,
      <<Review(DEFAULT_VALIDATION_REVIEWER, "COMMENTED", 1)>> }

Modes == {<<"trigger_review", FALSE, FALSE>>, <<"trigger_review", TRUE, FALSE>>,
          <<"trigger_review", FALSE, TRUE>>, <<"safe_push", FALSE, FALSE>>,
          <<"status", FALSE, FALSE>>}

GitFacts ==
    [dirty : BOOLEAN, branch : {"main", "HEAD"}, upstream : BOOLEAN,
     ahead : 0..MaxDivergence, behind : 0..MaxDivergence]

Init ==
    /\ \E m \in Modes : command = m[1] /\ local = m[2] /\ offline = m[3]
    /\ wait_seconds \in (IF command = "trigger_review" /\ ~local /\ ~offline
                         THEN {0, 180} ELSE {180})
    /\ since_iso \in (IF command = "status" THEN {"", Iso(2, "Z")} ELSE {""})
    /\ git \in GitFacts
    /\ pc = "main"
    /\ trace = <<>>
    /\ issue_comments = <<>>
    /\ review_comments = <<>>
    /\ reviews \in (IF offline \/ command = "safe_push" THEN {<<>>} ELSE InitReviews)
    /\ now = 1
    /\ env_events = 0
    /\ is_safe_msg = None
    /\ rev_list = None
    /\ res = None
    /\ start_time = NoTime
    /\ triggered_bots = <<>>
    /\ local_review_item = None
    /\ status_data = None
    /\ attempt = 0
    /\ sleeps = 0
    /\ stdout_json = <<>>
    /\ exit_code = -1
    /\ stderr = <<>>
    /\ history = <<>>

cfgVars == <<command, local, offline, wait_seconds, since_iso>>
platVars == <<issue_comments, review_comments, reviews, env_events>>
syncVars == <<is_safe_msg, rev_list>>
runVars == <<triggered_bots, res, local_review_item, status_data, attempt, sleeps>>
outVars == <<stdout_json, exit_code, stderr>>

(***************************************************************************)
(* Ends of a run.                                                          *)
(***************************************************************************)
\* print_json(result) followed by the end of the process with exit code c.
Emit(result, c) ==
    /\ stdout_json' = Append(stdout_json, result)
    /\ exit_code' = c
    /\ pc' = "exit"
    /\ UNCHANGED stderr

\* print_json after lines were written on stderr.
EmitLogged(result, c, lines) ==
    /\ stdout_json' = Append(stdout_json, result)
    /\ exit_code' = c
    /\ pc' = "exit"
    /\ stderr' = stderr \o lines

\* print_error(message): the error object is printed and sys.exit(1) ends the run.
print_error(message) ==
    Emit([status |-> "error", message |-> message, code |-> 1], 1)

\* UnhandledException reporting the exception the way print_error reports
\* a handled one, with its masked text as the message.
UnhandledException_detailed(kind, text) ==
    /\ stderr' = stderr \o << <<"CRITICAL ERROR: ">> \o _mask_token(text),
                              <<"Traceback (most recent call last): ", kind, ": ">>
                                 \o _mask_token(text) >>
    /\ stdout_json' = Append(stdout_json,
                             [status |-> "error",
                              message |-> _mask_token(text),
                              error_type |-> kind])
    /\ exit_code' = 1
    /\ pc' = "exit"

\* main's handler of an exception no component caught, of type kind and
\* with str(e) = text: the masked message and traceback go to stderr, the
\* generic error object to stdout, and sys.exit(1) ends the run.
UnhandledException(kind, text) ==
    /\ stderr' = stderr \o << <<"CRITICAL ERROR: ">> \o _mask_token(text),
                              <<"Traceback (most recent call last): ", kind, ": ">>
                                 \o _mask_token(text) >>
    /\ stdout_json' = Append(stdout_json,
                             [status |-> "error",
                              message |-> <<"An internal error occurred. See stderr for details.">>,
                              error_type |-> kind])
    /\ exit_code' = 1
    /\ pc' = "exit"

\* An external operation and how it ended: "ok", a non-zero exit status of
\* a call made with check=False, or the exception raised.
Call(op, outcome) == trace' = Append(trace, [op |-> op, outcome |-> outcome])

(***************************************************************************)
(* main: dispatch of the sub-command.                                      *)
(***************************************************************************)
\* trigger_review, "Capture start time for status check", and the branch
\* to the agent (local, offline) or to the marker comments (online).
CaptureStart ==
    /\ start_time' \in {now, now + 1}
    /\ now' = start_time'
    /\ pc' = IF local \/ offline THEN "tr_agent" ELSE "tr_get_pull"

\* main: the dispatch on args.command.
main ==
    /\ pc = "main"
    /\ command \in {"trigger_review", "status", "safe_push"}
    /\ pc' = CASE command = "trigger_review" -> "trigger_review"
               [] command = "status" -> "status"
               [] command = "safe_push" -> "vcg_status"
    /\ UNCHANGED <<cfgVars, history, git, trace, platVars, now, start_time, syncVars, runVars, outVars>>

\* trigger_review_start with "if not offline:" dropped: the sync check runs
\* in every mode.
trigger_review_start_offline_checked ==
    /\ pc = "trigger_review"
    /\ pc' = "vcg_status"
    /\ UNCHANGED <<start_time, now>>
    /\ UNCHANGED <<cfgVars, history, git, trace, platVars, syncVars, runVars, outVars>>

\* trigger_review_start with "if not offline:" turned into
\* "if not offline and not local:".
trigger_review_start_local_unchecked ==
    /\ pc = "trigger_review"
    /\ IF offline \/ local
       THEN CaptureStart
       ELSE pc' = "vcg_status" /\ UNCHANGED <<start_time, now>>
    /\ UNCHANGED <<cfgVars, history, git, trace, platVars, syncVars, runVars, outVars>>

\* trigger_review, "Step 1: Enforce Push": "if not offline:" decides
\* whether _check_local_state is called.
trigger_review_start ==
    /\ pc = "trigger_review"
    /\ IF offline
       THEN CaptureStart
       ELSE pc' = "vcg_status" /\ UNCHANGED <<start_time, now>>
    /\ UNCHANGED <<cfgVars, history, git, trace, platVars, syncVars, runVars, outVars>>

(***************************************************************************)
(* Sync Verifier: _verify_clean_git and _check_local_state.                *)
(***************************************************************************)
TIP == "\nTip: Use the 'safe_push' tool or run 'git push' manually."

\* The caller's code after _verify_clean_git / _check_local_state returned
\* (False, msg): trigger_review calls print_error; safe_push returns its
\* error dict, which main prints before sys.exit(1).
VerifyFailed(msg) ==
    IF command = "safe_push"
    THEN /\ Emit([status |-> "error", message |-> msg,
                  next_step |-> <<"Ensure git is clean and valid.">>], 1)
         /\ UNCHANGED is_safe_msg
    ELSE /\ is_safe_msg' = <<FALSE, msg>>
         /\ print_error(<<"FAILED: ">> \o msg \o <<TIP>>)

\* What git status --porcelain prints: one line per modified file.
git_status(g) == IF g.dirty THEN <<" M pr_skill.py">> ELSE <<>>

\* uncommitted_changes with the test of the porcelain output dropped.
uncommitted_changes_ignored(stdout) == FALSE

\* _verify_clean_git: "if status_proc.stdout.strip():".
uncommitted_changes(stdout) == stdout # <<>>

\* The except clauses of _verify_clean_git.
CleanGitError(kind, cmd) ==
    IF kind = "TimeoutExpired"
    THEN <<"Git check timed out.">>
    ELSE <<"Git check failed: ">> \o _mask_token(StrExc(kind, cmd, GIT_SHORT_TIMEOUT))

\* _verify_clean_git, step 1: git status --porcelain.
_verify_clean_git_status ==
    /\ pc = "vcg_status"
    /\ \/ /\ Call("git status", "ok")
          /\ IF uncommitted_changes(git_status(git))
             THEN VerifyFailed(<<"Uncommitted changes detected. Please commit or stash them first.">>)
             ELSE pc' = "vcg_branch" /\ UNCHANGED <<outVars, is_safe_msg>>
       \/ \E kind \in SubprocessErrors :
            /\ Call("git status", kind)
            /\ VerifyFailed(CleanGitError(kind, "git status"))
    /\ UNCHANGED <<cfgVars, history, git, platVars, now, start_time, rev_list, runVars>>

\* _verify_clean_git, step 2: git rev-parse --abbrev-ref HEAD.
_verify_clean_git_branch ==
    /\ pc = "vcg_branch"
    /\ \/ /\ Call("git rev-parse HEAD", "ok")
          /\ IF git.branch = "HEAD"
             THEN VerifyFailed(<<"Detached HEAD state detected. Please checkout a branch.">>)
             ELSE /\ pc' = IF command = "safe_push" THEN "sp_upstream" ELSE "cls_fetch"
                  /\ UNCHANGED <<outVars, is_safe_msg>>
       \/ \E kind \in SubprocessErrors :
            /\ Call("git rev-parse HEAD", kind)
            /\ VerifyFailed(CleanGitError(kind, "git rev-parse HEAD"))
    /\ UNCHANGED <<cfgVars, history, git, platVars, now, start_time, rev_list, runVars>>

\* The except clause of _check_local_state; a FileNotFoundError is not
\* caught there and reaches main's handler.
LocalStateError(kind, cmd, t) ==
    IF kind = "FileNotFoundError"
    THEN UnhandledException(kind, StrExc(kind, cmd, t)) /\ UNCHANGED is_safe_msg
    ELSE VerifyFailed(<<"Git check failed: ">> \o _mask_token(StrExc(kind, cmd, t)))

\* _check_local_state: git fetch.
_check_local_state_fetch ==
    /\ pc = "cls_fetch"
    /\ \/ /\ Call("git fetch", "ok")
          /\ pc' = "cls_branch"
          /\ UNCHANGED <<outVars, is_safe_msg>>
       \/ \E kind \in SubprocessErrors :
            /\ Call("git fetch", kind)
            /\ LocalStateError(kind, "git fetch", GIT_FETCH_TIMEOUT)
    /\ UNCHANGED <<cfgVars, history, git, platVars, now, start_time, rev_list, runVars>>

\* _check_local_state: git rev-parse --abbrev-ref HEAD (the branch name again).
_check_local_state_branch ==
    /\ pc = "cls_branch"
    /\ \/ /\ Call("git rev-parse HEAD", "ok")
          /\ pc' = "cls_upstream"
          /\ UNCHANGED <<outVars, is_safe_msg>>
       \/ \E kind \in SubprocessErrors :
            /\ Call("git rev-parse HEAD", kind)
            /\ LocalStateError(kind, "git rev-parse HEAD", GIT_SHORT_TIMEOUT)
    /\ UNCHANGED <<cfgVars, history, git, platVars, now, start_time, rev_list, runVars>>

NoUpstreamMessage(branch) ==
    <<"No upstream configured for branch '", branch, "'. Please 'git push -u origin ",
      branch, "' first.">>

\* _check_local_state: git rev-parse --abbrev-ref @{u} (check=False).
_check_local_state_upstream ==
    /\ pc = "cls_upstream"
    /\ \/ IF ~git.upstream
          THEN /\ Call("git rev-parse @{u}", "nonzero")
               /\ VerifyFailed(NoUpstreamMessage(git.branch))
          ELSE /\ Call("git rev-parse @{u}", "ok")
               /\ pc' = "cls_revlist"
               /\ UNCHANGED <<outVars, is_safe_msg>>
       \/ \E kind \in {"TimeoutExpired", "FileNotFoundError"} :
            /\ Call("git rev-parse @{u}", kind)
            /\ LocalStateError(kind, "git rev-parse @{u}", GIT_SHORT_TIMEOUT)
    /\ UNCHANGED <<cfgVars, history, git, platVars, now, start_time, rev_list, runVars>>

\* int(s) of a git count: the digit strings the model's counts print as.
IsInt(s) == \E n \in 0..MaxDivergence : ToString(n) = s
IntOf(s) == CHOOSE n \in 0..MaxDivergence : ToString(n) = s

\* What git rev-list --left-right --count @{u}...HEAD prints, split on
\* white space: "behind ahead", or an output the code cannot parse.
RevListStdouts(g) ==
    { <<ToString(g.behind), ToString(g.ahead)>>, <<"0">>, <<"x", "0">> }

\* Divergence without its "if behind > 0" branch.
Divergence_behind_ignored(returncode, parts, branch) ==
    IF returncode = 0 /\ Len(parts) = 2 /\ IsInt(parts[1]) /\ IsInt(parts[2])
       /\ IntOf(parts[2]) = 0
    THEN <<TRUE, <<"Code is clean and pushed.">>>>
    ELSE <<FALSE, <<"Git check failed: ">>>>

\* _check_local_state, from "if rev_list.returncode == 0" to its return:
\* the (is_safe, message) pair for a rev-list exit code and output.
Divergence(returncode, parts, branch) ==
    IF returncode = 0
    THEN IF Len(parts) = 2
         THEN IF IsInt(parts[1]) /\ IsInt(parts[2])
              THEN LET behind == IntOf(parts[1])
                       ahead == IntOf(parts[2])
                   IN IF ahead > 0
                      THEN <<FALSE, <<"Local branch '", branch, "' has ", ToString(ahead),
                                      " unpushed commit(s). You MUST push before triggering a review.">>>>
                      ELSE IF behind > 0
                      THEN <<FALSE, <<"Local branch '", branch, "' is behind upstream by ",
                                      ToString(behind), " commit(s). Please pull.">>>>
                      ELSE <<TRUE, <<"Code is clean and pushed.">>>>
              ELSE <<FALSE, <<"Failed to parse git rev-list output: '">> \o parts \o <<"'">>>>
         ELSE <<FALSE, <<"Unexpected git rev-list output: '">> \o parts \o <<"'">>>>
    ELSE <<FALSE, <<"Failed to check divergence: ", "fatal">>>>

\* _check_local_state: git rev-list (check=False), and on success the
\* return to trigger_review.
_check_local_state_revlist ==
    /\ pc = "cls_revlist"
    /\ \/ \E rc \in {0, 128}, parts \in RevListStdouts(git) :
            LET r == Divergence(rc, parts, git.branch)
            IN /\ Call("git rev-list", IF rc = 0 THEN "ok" ELSE "nonzero")
               /\ rev_list' = [returncode |-> rc, stdout |-> parts]
               /\ IF r[1]
                  THEN CaptureStart /\ is_safe_msg' = r /\ UNCHANGED outVars
                  ELSE VerifyFailed(r[2]) /\ UNCHANGED <<start_time, now>>
       \/ /\ \E kind \in {"TimeoutExpired", "FileNotFoundError"} :
                /\ Call("git rev-list", kind)
                /\ LocalStateError(kind, "git rev-list", GIT_SHORT_TIMEOUT)
          /\ UNCHANGED <<start_time, now, rev_list>>
    /\ UNCHANGED <<cfgVars, history, git, platVars, runVars>>

(***************************************************************************)
(* Publisher: safe_push.                                                   *)
(***************************************************************************)
\* safe_push_upstream that also refuses a branch with unpushed commits, as
\* _check_local_state does.
safe_push_upstream_checks_ahead ==
    /\ pc = "sp_upstream"
    /\ \/ IF ~git.upstream \/ git.ahead > 0
          THEN /\ Call("git rev-parse @{u}", "nonzero")
               /\ Emit([status |-> "error", message |-> NoUpstreamMessage(git.branch),
                        next_step |-> <<"Configure upstream and retry safe_push.">>], 1)
          ELSE /\ Call("git rev-parse @{u}", "ok")
               /\ pc' = "sp_push"
               /\ UNCHANGED outVars
       \/ /\ Call("git rev-parse @{u}", "TimeoutExpired")
          /\ Emit([status |-> "error", message |-> <<"Git upstream check timed out.">>], 1)
    /\ UNCHANGED <<cfgVars, history, git, platVars, now, start_time, syncVars, runVars>>

\* safe_push: git rev-parse --abbrev-ref @{u} (check=False).
safe_push_upstream ==
    /\ pc = "sp_upstream"
    /\ \/ IF ~git.upstream
          THEN /\ Call("git rev-parse @{u}", "nonzero")
               /\ Emit([status |-> "error", message |-> NoUpstreamMessage(git.branch),
                        next_step |-> <<"Configure upstream and retry safe_push.">>], 1)
          ELSE /\ Call("git rev-parse @{u}", "ok")
               /\ pc' = "sp_push"
               /\ UNCHANGED outVars
       \/ /\ Call("git rev-parse @{u}", "TimeoutExpired")
          /\ Emit([status |-> "error", message |-> <<"Git upstream check timed out.">>], 1)
       \/ /\ Call("git rev-parse @{u}", "FileNotFoundError")
          /\ Emit([status |-> "error",
                   message |-> <<"Failed to determine upstream for branch '", git.branch,
                                 "'. Please ensure it's configured.">>,
                   next_step |-> <<"Check git configuration and retry safe_push.">>], 1)
    /\ UNCHANGED <<cfgVars, history, git, platVars, now, start_time, syncVars, runVars>>

\* PushErrorMessage without the text of the exception.
PushErrorMessage_no_detail(kind) ==
    <<"Push failed or timed out: ",
      ". You may need to pull changes first or check your connection.">>

\* The message of safe_push's "except" clause around git push.
PushErrorMessage(kind) ==
    <<"Push failed or timed out: ">>
      \o _mask_token(StrExc(kind, "git push", GIT_PUSH_TIMEOUT))
      \o <<". You may need to pull changes first or check your connection.">>

\* safe_push: git push (check=True).  The remote accepts the push only of
\* a branch that is not behind its upstream.
safe_push_push ==
    /\ pc = "sp_push"
    /\ \/ /\ git.behind = 0
          /\ Call("git push", "ok")
          /\ git' = [git EXCEPT !.ahead = 0]
          /\ Emit([status |-> "success", message |-> <<"Push successful.">>,
                   next_step |-> <<"Run 'trigger_review' to start the review cycle.">>], 0)
       \/ /\ \E kind \in SubprocessErrors :
                /\ Call("git push", kind)
                /\ Emit([status |-> "error", message |-> PushErrorMessage(kind),
                         next_step |-> <<"Pull changes, resolve conflicts, and retry safe_push.">>], 1)
          /\ UNCHANGED git
    /\ UNCHANGED <<cfgVars, history, platVars, now, start_time, syncVars, runVars>>

(***************************************************************************)
(* Feedback Fetcher and Feedback Classifier: check_status.                 *)
(***************************************************************************)
Item(type, user, state, body, created_at, updated_at) ==
    [type |-> type, user |-> user, state |-> state, body |-> body,
     created_at |-> created_at, updated_at |-> updated_at]

\* check_status, "1. Issue Comments": the comments the platform returns for
\* get_comments(since=since_dt), those updated at or after since_dt.
IssueCommentItems(comments, since_dt) ==
    LET new(c) == c.updated_at >= since_dt
        item(c) == Item("issue_comment", c.user, "None", c.body, c.created_at, c.updated_at)
        kept == SelectSeq(comments, new)
    IN [i \in 1..Len(kept) |-> item(kept[i])]

\* InlineCommentItems filtered on created_at.
InlineCommentItems_by_created(comments, since_dt) ==
    LET new(c) == c.created_at # NoTime /\ c.created_at >= since_dt
        item(c) == Item("inline_comment", c.user, "None", c.body, c.created_at, c.updated_at)
        kept == SelectSeq(comments, new)
    IN [i \in 1..Len(kept) |-> item(kept[i])]

\* check_status, "2. Review Comments (Inline)": filtered on updated_at.
InlineCommentItems(comments, since_dt) ==
    LET new(c) == c.updated_at # NoTime /\ c.updated_at >= since_dt
        item(c) == Item("inline_comment", c.user, "None", c.body, c.created_at, c.updated_at)
        kept == SelectSeq(comments, new)
    IN [i \in 1..Len(kept) |-> item(kept[i])]

\* check_status, "3. Reviews": filtered on submitted_at, which may be None.
ReviewItems(revs, since_dt) ==
    LET new(r) == r.submitted_at # NoTime /\ r.submitted_at >= since_dt
        item(r) == Item("review_summary", r.user, r.state, <<>>, r.submitted_at, NoTime)
        kept == SelectSeq(revs, new)
    IN [i \in 1..Len(kept) |-> item(kept[i])]

\* check_status: new_feedback, the three categories in the order fetched.
new_feedback(comments, inline, revs, since_dt) ==
    IssueCommentItems(comments, since_dt) \o InlineCommentItems(inline, since_dt)
      \o ReviewItems(revs, since_dt)

\* has_changes_requested looking at the newest item only.
has_changes_requested_last_only(items) ==
    /\ items # <<>>
    /\ items[Len(items)].type = "review_summary"
    /\ items[Len(items)].state = "CHANGES_REQUESTED"

\* has_changes_requested counting the main reviewer's reviews only.
has_changes_requested_main_only(items) ==
    \E i \in 1..Len(items) :
        /\ items[i].type = "review_summary" /\ items[i].state = "CHANGES_REQUESTED"
        /\ items[i].user = DEFAULT_VALIDATION_REVIEWER

\* check_status: has_changes_requested, any CHANGES_REQUESTED review among
\* the new items.
has_changes_requested(items) ==
    \E i \in 1..Len(items) :
        items[i].type = "review_summary" /\ items[i].state = "CHANGES_REQUESTED"

\* ScanReviews taking the approval timestamp from the main reviewer's
\* latest review only.
RECURSIVE ScanReviews_latest_only(_, _, _, _, _, _)
ScanReviews_latest_only(revs, i, validation_reviewer, state, found, approval) ==
    IF i = 0 THEN <<state, approval>>
    ELSE IF revs[i].user = validation_reviewer
    THEN <<revs[i].state,
           IF revs[i].state = "APPROVED" THEN revs[i].submitted_at ELSE NoTime>>
    ELSE ScanReviews_latest_only(revs, i - 1, validation_reviewer, state, found, approval)

\* check_status, "Single pass: find latest state AND most recent approval
\* timestamp": the loop over reversed(reviews) from index i down, with its
\* accumulators and its early exit.  Returns <<state, last_approval_dt>>.
RECURSIVE ScanReviews(_, _, _, _, _, _)
ScanReviews(revs, i, validation_reviewer, state, found, approval) ==
    IF i = 0 THEN <<state, approval>>
    ELSE IF revs[i].user = validation_reviewer
    THEN LET state2 == IF ~found THEN revs[i].state ELSE state
             approval2 == IF approval = NoTime /\ revs[i].state = "APPROVED"
                          THEN revs[i].submitted_at ELSE approval
         IN IF approval2 # NoTime
            THEN <<state2, approval2>>
            ELSE ScanReviews(revs, i - 1, validation_reviewer, state2, TRUE, approval2)
    ELSE ScanReviews(revs, i - 1, validation_reviewer, state, found, approval)

main_reviewer_scan(revs, validation_reviewer) ==
    ScanReviews(revs, Len(revs), validation_reviewer, "PENDING", FALSE, NoTime)

main_reviewer_state(revs, validation_reviewer) ==
    main_reviewer_scan(revs, validation_reviewer)[1]

main_reviewer_last_approval_dt(revs, validation_reviewer) ==
    main_reviewer_scan(revs, validation_reviewer)[2]

\* has_new_main_reviewer_comments with ">" in place of ">=".
has_new_main_reviewer_comments_strict(items, approval_dt, validation_reviewer) ==
    /\ approval_dt # NoTime
    /\ \E i \in 1..Len(items) :
         /\ items[i].user = validation_reviewer
         /\ \/ items[i].type \in {"issue_comment", "inline_comment"}
            \/ items[i].type = "review_summary" /\ items[i].state = "COMMENTED"
         /\ items[i].created_at # NoTime
         /\ items[i].created_at > approval_dt

\* check_status, "Check for comments from main_reviewer AFTER approval".
has_new_main_reviewer_comments(items, approval_dt, validation_reviewer) ==
    /\ approval_dt # NoTime
    /\ \E i \in 1..Len(items) :
         /\ items[i].user = validation_reviewer
         /\ \/ items[i].type \in {"issue_comment", "inline_comment"}
            \/ items[i].type = "review_summary" /\ items[i].state = "COMMENTED"
         /\ items[i].created_at # NoTime
         /\ items[i].created_at >= approval_dt

\* other_feedback counting reviews only, comments left out.
other_feedback_reviews_only(items, validation_reviewer) ==
    LET other(it) == it.type = "review_summary"
                     /\ ~(it.user = validation_reviewer /\ it.state = "APPROVED")
    IN SelectSeq(items, other)

\* check_status: other_feedback, the items that are not the main
\* reviewer's approval.
other_feedback(items, validation_reviewer) ==
    LET other(it) == ~(it.user = validation_reviewer /\ it.type = "review_summary"
                       /\ it.state = "APPROVED")
    IN SelectSeq(items, other)

NEXT_CHANGES_REQUESTED ==
    <<"CRITICAL: Changes requested by reviewer. ", ACTION_INSTRUCTIONS, RATE_LIMIT_INSTRUCTION>>
NEXT_NEW_COMMENTS(validation_reviewer) ==
    <<"New comments from ", validation_reviewer, " after approval. ",
      ACTION_INSTRUCTIONS, RATE_LIMIT_INSTRUCTION>>
NEXT_NEW_FEEDBACK == <<"New feedback received. ", ACTION_INSTRUCTIONS>>
NEXT_STOP == <<"Validation Complete (STOP LOOP - DO NOT MERGE AUTONOMOUSLY). Notify User. ...">>
NEXT_WAIT(validation_reviewer, state) ==
    <<"Waiting for approval from ", validation_reviewer, " (Current: ", state,
      "). Poll again. Be autonomous, don't stop the cycle. ...">>

\* next_step with the APPROVED branch tested before the comments after
\* approval.
next_step_approved_first(items, revs, validation_reviewer) ==
    LET state == main_reviewer_state(revs, validation_reviewer)
        approval_dt == main_reviewer_last_approval_dt(revs, validation_reviewer)
    IN IF has_changes_requested(items) THEN NEXT_CHANGES_REQUESTED
       ELSE IF state = "APPROVED"
       THEN IF other_feedback(items, validation_reviewer) # <<>>
            THEN NEXT_NEW_FEEDBACK ELSE NEXT_STOP
       ELSE IF has_new_main_reviewer_comments(items, approval_dt, validation_reviewer)
       THEN NEXT_NEW_COMMENTS(validation_reviewer)
       ELSE IF items # <<>> THEN NEXT_NEW_FEEDBACK
       ELSE NEXT_WAIT(validation_reviewer, state)

\* next_step with "elif new_feedback" tested before the APPROVED branch.
next_step_items_first(items, revs, validation_reviewer) ==
    LET state == main_reviewer_state(revs, validation_reviewer)
        approval_dt == main_reviewer_last_approval_dt(revs, validation_reviewer)
    IN IF has_changes_requested(items) THEN NEXT_CHANGES_REQUESTED
       ELSE IF has_new_main_reviewer_comments(items, approval_dt, validation_reviewer)
       THEN NEXT_NEW_COMMENTS(validation_reviewer)
       ELSE IF items # <<>> THEN NEXT_NEW_FEEDBACK
       ELSE IF state = "APPROVED" THEN NEXT_STOP
       ELSE NEXT_WAIT(validation_reviewer, state)

\* next_step whose last branch stops the loop instead of waiting.
next_step_stop_when_idle(items, revs, validation_reviewer) ==
    LET state == main_reviewer_state(revs, validation_reviewer)
        approval_dt == main_reviewer_last_approval_dt(revs, validation_reviewer)
    IN IF has_changes_requested(items) THEN NEXT_CHANGES_REQUESTED
       ELSE IF has_new_main_reviewer_comments(items, approval_dt, validation_reviewer)
       THEN NEXT_NEW_COMMENTS(validation_reviewer)
       ELSE IF state = "APPROVED"
       THEN IF other_feedback(items, validation_reviewer) # <<>>
            THEN NEXT_NEW_FEEDBACK ELSE NEXT_STOP
       ELSE IF items # <<>> THEN NEXT_NEW_FEEDBACK
       ELSE NEXT_STOP

\* next_step asking to wait and poll again whenever nothing is newer than
\* since, whatever the history holds.
next_step_waiting_on_empty_window(items, revs, validation_reviewer) ==
    LET state == main_reviewer_state(revs, validation_reviewer)
        approval_dt == main_reviewer_last_approval_dt(revs, validation_reviewer)
    IN IF items = <<>> THEN NEXT_WAIT(validation_reviewer, state)
       ELSE IF has_changes_requested(items) THEN NEXT_CHANGES_REQUESTED
       ELSE IF has_new_main_reviewer_comments(items, approval_dt, validation_reviewer)
       THEN NEXT_NEW_COMMENTS(validation_reviewer)
       ELSE IF state = "APPROVED"
       THEN IF other_feedback(items, validation_reviewer) # <<>>
            THEN NEXT_NEW_FEEDBACK ELSE NEXT_STOP
       ELSE NEXT_NEW_FEEDBACK

\* check_status: the if/elif chain that derives next_step.
next_step(items, revs, validation_reviewer) ==
    LET state == main_reviewer_state(revs, validation_reviewer)
        approval_dt == main_reviewer_last_approval_dt(revs, validation_reviewer)
    IN IF has_changes_requested(items) THEN NEXT_CHANGES_REQUESTED
       ELSE IF has_new_main_reviewer_comments(items, approval_dt, validation_reviewer)
       THEN NEXT_NEW_COMMENTS(validation_reviewer)
       ELSE IF state = "APPROVED"
       THEN IF other_feedback(items, validation_reviewer) # <<>>
            THEN NEXT_NEW_FEEDBACK ELSE NEXT_STOP
       ELSE IF items # <<>> THEN NEXT_NEW_FEEDBACK
       ELSE NEXT_WAIT(validation_reviewer, state)

\* check_status remembering what the previous call returned and
\* reporting only the items that call had not reported.
check_status_remembering(comments, inline, revs, since_dt, validation_reviewer) ==
    LET all == new_feedback(comments, inline, revs, since_dt)
        seen == IF status_data # None /\ "items" \in DOMAIN status_data
                THEN {status_data.items[i] : i \in 1..Len(status_data.items)}
                ELSE {}
        items == SelectSeq(all, LAMBDA it : it \notin seen)
    IN [status |-> "success",
        new_item_count |-> Len(items),
        items |-> items,
        main_reviewer |-> [user |-> validation_reviewer,
                           state |-> main_reviewer_state(revs, validation_reviewer)],
        next_step |-> next_step(items, revs, validation_reviewer)]

\* check_status: the output dict for the platform's data and a since_dt.
check_status(comments, inline, revs, since_dt, validation_reviewer) ==
    LET items == new_feedback(comments, inline, revs, since_dt)
    IN [status |-> "success",
        new_item_count |-> Len(items),
        items |-> items,
        main_reviewer |-> [user |-> validation_reviewer,
                           state |-> main_reviewer_state(revs, validation_reviewer)],
        next_step |-> next_step(items, revs, validation_reviewer)]

\* str(e) of a GithubException: the platform's message, which may embed
\* the credential the request was made with.
GithubErrors == { <<"403 rate limit exceeded">>, <<"401 bad credentials for ", TOKEN>> }

(***************************************************************************)
(* Reviewer Trigger: trigger_review.                                       *)
(***************************************************************************)
Label == IF local THEN "Local" ELSE "Offline"

ESC == "<ESC>[0m"
\* What the review agent may print on stdout and on stderr.
AgentStdouts == { <<"Mock feedback">>, <<ESC, "Mock ", ESC, "feedback">> }
AgentStderrs == { <<>>, <<"warning: ", TOKEN>> }

\* re.sub(r"\x1B(?:[@-Z\\-_]|\[[0-?]*[ -/]*[@-~])", "", res.stdout)
clean_stdout(out) == SelectSeq(out, LAMBDA f : f # ESC)

\* AgentFailedMessage without the captured stdout.
AgentFailedMessage_no_stdout(rc, out, err) ==
    <<Label, " reviewer failed with exit code ", ToString(rc), ".\nSTDERR: ">>
      \o _mask_token(err)

\* trigger_review: the message of "if res.returncode != 0".
AgentFailedMessage(rc, out, err) ==
    <<Label, " reviewer failed with exit code ", ToString(rc), ".\nSTDERR: ">>
      \o _mask_token(err) \o <<"\nSTDOUT: ">> \o _mask_token(out)

AgentTimeoutMessage ==
    <<Label, " reviewer timed out after ", ToString(AGENT_TIMEOUT), "s.">>

AgentNotFoundMessage ==
    <<Label, " reviewer executable not found. Ensure npx/gemini-cli is installed. Error: ">>
      \o StrExc("FileNotFoundError", "npx", AGENT_TIMEOUT)

\* trigger_review: the dict returned in offline mode.
OfflineResult(item, bots) ==
    [status |-> "success",
     message |-> <<"Offline review completed locally.">>,
     triggered_bots |-> bots,
     initial_status |-> [status |-> "success", new_item_count |-> 1,
                         items |-> <<item>>,
                         main_reviewer |-> [user |-> SYNTHETIC_USER, state |-> "COMMENTED"]],
     next_step |-> <<"Analyze the feedback in 'initial_status.items' and implement fixes. Proceed directly to Step 4 (Analyze & Implement).">>]

\* trigger_review, "Step 2" in local and offline mode: the review agent is
\* run (check=False, timeout=600).
trigger_review_agent ==
    /\ pc = "tr_agent"
    /\ \/ \E out \in AgentStdouts, err \in AgentStderrs :
            LET item == Item(IF local THEN "local_review" ELSE "offline_review",
                             SYNTHETIC_USER, "None", clean_stdout(out), now, now)
            IN /\ Call("agent", "ok")
               /\ res' = [returncode |-> 0, stdout |-> out, stderr |-> err]
               /\ local_review_item' = item
               /\ triggered_bots' = Append(triggered_bots, "/code-review")
               /\ IF offline
                  THEN Emit(OfflineResult(item, triggered_bots'), 0)
                  ELSE pc' = "tr_local_wait" /\ UNCHANGED outVars
       \/ /\ \E rc \in {1}, out \in AgentStdouts, err \in AgentStderrs :
                /\ Call("agent", "nonzero")
                /\ res' = [returncode |-> rc, stdout |-> out, stderr |-> err]
                /\ print_error(AgentFailedMessage(rc, out, err))
          /\ UNCHANGED <<local_review_item, triggered_bots>>
       \/ /\ Call("agent", "TimeoutExpired")
          /\ print_error(AgentTimeoutMessage)
          /\ UNCHANGED <<res, local_review_item, triggered_bots>>
       \/ /\ Call("agent", "FileNotFoundError")
          /\ print_error(AgentNotFoundMessage)
          /\ UNCHANGED <<res, local_review_item, triggered_bots>>
    /\ UNCHANGED <<cfgVars, history, git, platVars, now, start_time, syncVars, status_data,
                   attempt, sleeps>>

GithubApiError(text) == print_error(<<"GitHub API Error: ">> \o _mask_token(text))

\* trigger_review, "Step 2" in online mode: self.repo.get_pull(pr_number).
trigger_review_get_pull ==
    /\ pc = "tr_get_pull"
    /\ \/ /\ Call("get_pull", "ok")
          /\ pc' = "tr_post"
          /\ UNCHANGED outVars
       \/ /\ Call("get_pull", "GithubException")
          /\ \E text \in GithubErrors : GithubApiError(text)
    /\ UNCHANGED <<cfgVars, history, git, platVars, now, start_time, syncVars, runVars>>

NEXT_RUN_STATUS ==
    <<"Run 'status' to check for feedback. Be autonomous, don't stop the cycle. ...">>

Get(d, key, default) == IF key \in DOMAIN d THEN d[key] ELSE default

\* OnlineResult giving the next_step of an unpolled trigger whatever the
\* status data say.
OnlineResult_default_next_step(data, bots) ==
    LET interrupted == Get(data, "polling_interrupted", FALSE)
        message == IF wait_seconds > 0 /\ ~interrupted
                   THEN "Triggered reviews and polled for main reviewer feedback."
                   ELSE IF interrupted THEN "Triggered reviews; polling was interrupted."
                   ELSE IF wait_seconds <= 0 THEN "Triggered reviews; polling was skipped."
                   ELSE "Triggered reviews."
    IN [status |-> "success", message |-> <<message>>, triggered_bots |-> bots,
        initial_status |-> data,
        next_step |-> NEXT_RUN_STATUS]

\* trigger_review: the dict returned in online mode.
OnlineResult(data, bots) ==
    LET interrupted == Get(data, "polling_interrupted", FALSE)
        message == IF wait_seconds > 0 /\ ~interrupted
                   THEN "Triggered reviews and polled for main reviewer feedback."
                   ELSE IF interrupted THEN "Triggered reviews; polling was interrupted."
                   ELSE IF wait_seconds <= 0 THEN "Triggered reviews; polling was skipped."
                   ELSE "Triggered reviews."
    IN [status |-> "success", message |-> <<message>>, triggered_bots |-> bots,
        initial_status |-> data,
        next_step |-> Get(data, "next_step", NEXT_RUN_STATUS)]

SKIPPED ==
    [status |-> "skipped",
     message |-> <<"Initial status check skipped due to wait_seconds=0.">>]

\* NextCommand iterating over reversed(REVIEW_COMMANDS).
NextCommand_reversed(bots) == REVIEW_COMMANDS[Len(REVIEW_COMMANDS) - Len(bots)]

\* trigger_review, "for c in REVIEW_COMMANDS": the command of the turn that
\* follows the ones already posted.
NextCommand(bots) == REVIEW_COMMANDS[Len(bots) + 1]

\* trigger_review_post going on to the wait and the poll with the markers
\* posted so far when a marker cannot be posted.
trigger_review_post_tolerant ==
    /\ pc = "tr_post"
    /\ Len(triggered_bots) < Len(REVIEW_COMMANDS)
    /\ \/ LET c == NextCommand(triggered_bots)
          IN /\ Call("create_issue_comment", "ok")
             /\ issue_comments' = Append(issue_comments, Comment(SELF_USER, <<c>>, now, now))
             /\ triggered_bots' = Append(triggered_bots, c)
             /\ IF Len(triggered_bots') < Len(REVIEW_COMMANDS)
                THEN pc' = "tr_post" /\ UNCHANGED <<outVars, status_data>>
                ELSE IF wait_seconds > 0
                THEN pc' = "tr_wait" /\ UNCHANGED <<outVars, status_data>>
                ELSE /\ status_data' = SKIPPED
                     /\ Emit(OnlineResult(SKIPPED, triggered_bots'), 0)
       \/ /\ Call("create_issue_comment", "GithubException")
          /\ IF wait_seconds > 0
             THEN pc' = "tr_wait" /\ UNCHANGED <<outVars, status_data>>
             ELSE /\ status_data' = SKIPPED
                  /\ Emit(OnlineResult(SKIPPED, triggered_bots), 0)
          /\ UNCHANGED <<issue_comments, triggered_bots>>
    /\ UNCHANGED <<cfgVars, history, git, review_comments, reviews, env_events, now, start_time,
                   syncVars, res, local_review_item, attempt, sleeps>>

\* trigger_review: one turn of "for c in REVIEW_COMMANDS", the comment
\* create_issue_comment(c) posts; after the last one the branch on
\* wait_seconds.
trigger_review_post ==
    /\ pc = "tr_post"
    /\ Len(triggered_bots) < Len(REVIEW_COMMANDS)
    /\ \/ LET c == NextCommand(triggered_bots)
          IN /\ Call("create_issue_comment", "ok")
             /\ issue_comments' = Append(issue_comments, Comment(SELF_USER, <<c>>, now, now))
             /\ triggered_bots' = Append(triggered_bots, c)
             /\ IF Len(triggered_bots') < Len(REVIEW_COMMANDS)
                THEN pc' = "tr_post" /\ UNCHANGED <<outVars, status_data>>
                ELSE IF wait_seconds > 0
                THEN pc' = "tr_wait" /\ UNCHANGED <<outVars, status_data>>
                ELSE /\ status_data' = SKIPPED
                     /\ Emit(OnlineResult(SKIPPED, triggered_bots'), 0)
       \/ /\ Call("create_issue_comment", "GithubException")
          /\ \E text \in GithubErrors : GithubApiError(text)
          /\ UNCHANGED <<issue_comments, triggered_bots, status_data>>
    /\ UNCHANGED <<cfgVars, history, git, review_comments, reviews, env_events, now, start_time,
                   syncVars, res, local_review_item, attempt, sleeps>>

\* trigger_review, "Step 3" in online mode: time.sleep(wait_seconds); a
\* KeyboardInterrupt during the sleep is caught and the poll starts at once.
trigger_review_wait ==
    /\ pc = "tr_wait"
    /\ \E o \in {"ok", "KeyboardInterrupt"} : Call("sleep", o)
    /\ sleeps' = sleeps + 1
    /\ attempt' = 1
    /\ pc' = "poll_check"
    /\ UNCHANGED <<cfgVars, history, git, platVars, now, start_time, syncVars, triggered_bots,
                   res, local_review_item, status_data, outVars>>

(***************************************************************************)
(* Loop Controller: _poll_for_main_reviewer.                               *)
(***************************************************************************)
NEXT_INTERRUPTED ==
    <<"INTERRUPTED: Polling cancelled by user. Resume with 'status' command.">>
NEXT_TIMEOUT(validation_reviewer) ==
    <<"TIMEOUT: ", validation_reviewer,
      " did not respond. Poll again with 'status' or investigate bot issues.">>

\* Interrupted reporting the interruption the way the end of the loop
\* reports a timeout.
Interrupted_as_timeout(data) ==
    LET d == IF data = None
             THEN [status |-> "interrupted",
                   message |-> <<"Polling interrupted before first check.">>]
             ELSE data
    IN ("polling_timeout" :> TRUE)
         @@ ("next_step" :> NEXT_TIMEOUT(DEFAULT_VALIDATION_REVIEWER)) @@ d

\* _poll_for_main_reviewer, "except KeyboardInterrupt": the dict returned.
Interrupted(data) ==
    LET d == IF data = None
             THEN [status |-> "interrupted",
                   message |-> <<"Polling interrupted before first check.">>]
             ELSE data
    IN ("polling_interrupted" :> TRUE) @@ ("next_step" :> NEXT_INTERRUPTED) @@ d

\* TimedOut marking the data and leaving the instruction of the last
\* classification in place.
TimedOut_keeping_next_step(data, validation_reviewer) ==
    ("polling_timeout" :> TRUE) @@ data

\* _poll_for_main_reviewer, after the loop: the dict returned on timeout.
TimedOut(data, validation_reviewer) ==
    ("polling_timeout" :> TRUE) @@ ("next_step" :> NEXT_TIMEOUT(validation_reviewer)) @@ data

\* main_reviewer_has_new_feedback reading the main reviewer's state, which
\* reflects the whole history.
main_reviewer_has_new_feedback_by_state(data, validation_reviewer) ==
    data.main_reviewer.state # "PENDING"

\* _poll_for_main_reviewer: any item of the status data, which are the
\* items since since_iso, is authored by the main reviewer.
main_reviewer_has_new_feedback(data, validation_reviewer) ==
    \E i \in 1..Len(data.items) : data.items[i].user = validation_reviewer

\* _poll_for_main_reviewer: what the loop persists outside the process.
\* attempt, since_iso and status_data are local variables and the method
\* writes no file, so there is never anything.
LoopCheckpoint == None

\* _poll_for_main_reviewer_check with range(1, max_attempts + 2).
_poll_for_main_reviewer_check_one_more ==
    /\ pc = "poll_check"
    /\ \/ LET data == check_status(issue_comments, review_comments, reviews, start_time,
                                   DEFAULT_VALIDATION_REVIEWER)
          IN /\ Call("check_status", "ok")
             /\ IF main_reviewer_has_new_feedback(data, DEFAULT_VALIDATION_REVIEWER)
                THEN /\ status_data' = data
                     /\ Emit(OnlineResult(data, triggered_bots), 0)
                ELSE IF attempt <= POLL_MAX_ATTEMPTS
                THEN /\ status_data' = data
                     /\ pc' = "poll_sleep"
                     /\ UNCHANGED outVars
                ELSE /\ status_data' = TimedOut(data, DEFAULT_VALIDATION_REVIEWER)
                     /\ Emit(OnlineResult(status_data', triggered_bots), 0)
       \/ /\ Call("check_status", "GithubException")
          /\ \E text \in GithubErrors : UnhandledException("GithubException", text)
          /\ UNCHANGED status_data
       \/ /\ Call("check_status", "KeyboardInterrupt")
          /\ status_data' = Interrupted(status_data)
          /\ Emit(OnlineResult(status_data', triggered_bots), 0)
    /\ UNCHANGED <<cfgVars, history, git, platVars, now, start_time, syncVars, triggered_bots,
                   res, local_review_item, attempt, sleeps>>

\* _poll_for_main_reviewer: one attempt, the check_status call and the
\* code up to the sleep, the return or the end of the loop.
_poll_for_main_reviewer_check ==
    /\ pc = "poll_check"
    /\ \/ LET data == check_status(issue_comments, review_comments, reviews, start_time,
                                   DEFAULT_VALIDATION_REVIEWER)
          IN /\ Call("check_status", "ok")
             /\ IF main_reviewer_has_new_feedback(data, DEFAULT_VALIDATION_REVIEWER)
                THEN /\ status_data' = data
                     /\ Emit(OnlineResult(data, triggered_bots), 0)
                ELSE IF attempt < POLL_MAX_ATTEMPTS
                THEN /\ status_data' = data
                     /\ pc' = "poll_sleep"
                     /\ UNCHANGED outVars
                ELSE /\ status_data' = TimedOut(data, DEFAULT_VALIDATION_REVIEWER)
                     /\ Emit(OnlineResult(status_data', triggered_bots), 0)
       \/ /\ Call("check_status", "GithubException")
          /\ \E text \in GithubErrors : UnhandledException("GithubException", text)
          /\ UNCHANGED status_data
       \/ /\ Call("check_status", "KeyboardInterrupt")
          /\ status_data' = Interrupted(status_data)
          /\ Emit(OnlineResult(status_data', triggered_bots), 0)
    /\ UNCHANGED <<cfgVars, history, git, platVars, now, start_time, syncVars, triggered_bots,
                   res, local_review_item, attempt, sleeps>>

\* _poll_for_main_reviewer_sleep moving since forward to the end of the
\* sleep, so that the next attempt asks for what is newer than that.
_poll_for_main_reviewer_sleep_advancing_since ==
    /\ pc = "poll_sleep"
    /\ sleeps' = sleeps + 1
    /\ \/ /\ Call("sleep", "ok")
          /\ attempt' = attempt + 1
          /\ start_time' = now + 1
          /\ pc' = "poll_check"
          /\ UNCHANGED <<status_data, outVars>>
       \/ /\ Call("sleep", "KeyboardInterrupt")
          /\ status_data' = Interrupted(status_data)
          /\ Emit(OnlineResult(status_data', triggered_bots), 0)
          /\ UNCHANGED <<attempt, start_time>>
    /\ UNCHANGED <<cfgVars, history, git, platVars, now, syncVars, triggered_bots,
                   res, local_review_item>>

\* _poll_for_main_reviewer: time.sleep(poll_interval) between two attempts;
\* a KeyboardInterrupt during it ends the loop.
_poll_for_main_reviewer_sleep ==
    /\ pc = "poll_sleep"
    /\ sleeps' = sleeps + 1
    /\ \/ /\ Call("sleep", "ok")
          /\ attempt' = attempt + 1
          /\ pc' = "poll_check"
          /\ UNCHANGED <<status_data, outVars>>
       \/ /\ Call("sleep", "KeyboardInterrupt")
          /\ status_data' = Interrupted(status_data)
          /\ Emit(OnlineResult(status_data', triggered_bots), 0)
          /\ UNCHANGED attempt
    /\ UNCHANGED <<cfgVars, history, git, platVars, now, start_time, syncVars, triggered_bots,
                   res, local_review_item>>

(***************************************************************************)
(* trigger_review, "Step 3" in local mode.                                 *)
(***************************************************************************)
\* time.sleep(wait_time); a KeyboardInterrupt during it is caught and the
\* status is fetched at once.
trigger_review_local_wait ==
    /\ pc = "tr_local_wait"
    /\ \E o \in {"ok", "KeyboardInterrupt"} : Call("sleep", o)
    /\ sleeps' = sleeps + 1
    /\ pc' = "tr_local_check"
    /\ UNCHANGED <<cfgVars, history, git, platVars, now, start_time, syncVars, triggered_bots,
                   res, local_review_item, status_data, attempt, outVars>>

\* The status data trigger_review falls back to when check_status raised.
POLLING_FAILED ==
    [status |-> "success", items |-> <<>>,
     next_step |-> <<"Analyze feedback and implement fixes.">>]

\* InsertFirst with append(local_review_item) in place of insert(0, ...).
InsertFirst_append(items, item) == Append(items, item)

\* trigger_review: status_data["items"].insert(0, local_review_item).
InsertFirst(items, item) == <<item>> \o items

\* MergeLocal putting the synthetic item in front and leaving the main
\* reviewer and the instruction of the online classification in place.
MergeLocal_keeping_classification(data, item) ==
    IF item # None
    THEN LET items == InsertFirst(data.items, item)
         IN ("items" :> items) @@ ("new_item_count" :> Len(items)) @@ data
    ELSE data

\* trigger_review: "if local_review_item:", the merge of the synthetic item
\* in front of the online items.
MergeLocal(data, item) ==
    IF item # None
    THEN LET items == InsertFirst(data.items, item)
         IN ("items" :> items)
              @@ ("new_item_count" :> Len(items))
              @@ ("main_reviewer" :> [user |-> SYNTHETIC_USER, state |-> "COMMENTED"])
              @@ ("next_step" :> NEXT_NEW_FEEDBACK)
              @@ data
    ELSE data

\* trigger_review: the dict returned in local mode.
LocalResult(data, bots) ==
    [status |-> "success",
     message |-> <<"Triggered local review and fetched online comments.">>,
     triggered_bots |-> bots,
     initial_status |-> data,
     next_step |-> Get(data, "next_step", <<"Analyze feedback and implement fixes.">>)]

\* trigger_review_local_check reporting a failed fetch the way the online
\* path reports a failed posting.
trigger_review_local_check_surfacing ==
    /\ pc = "tr_local_check"
    /\ \/ /\ Call("check_status", "ok")
          /\ status_data' = MergeLocal(check_status(issue_comments, review_comments, reviews,
                                                    start_time, DEFAULT_VALIDATION_REVIEWER),
                                       local_review_item)
          /\ Emit(LocalResult(status_data', triggered_bots), 0)
       \/ /\ Call("check_status", "GithubException")
          /\ \E text \in GithubErrors : GithubApiError(text)
          /\ UNCHANGED status_data
    /\ UNCHANGED <<cfgVars, history, git, platVars, now, start_time, syncVars, triggered_bots,
                   res, local_review_item, attempt, sleeps>>

\* trigger_review in local mode: the one check_status call, the merge and
\* the return.
trigger_review_local_check ==
    /\ pc = "tr_local_check"
    /\ \/ /\ Call("check_status", "ok")
          /\ status_data' = MergeLocal(check_status(issue_comments, review_comments, reviews,
                                                    start_time, DEFAULT_VALIDATION_REVIEWER),
                                       local_review_item)
       \/ /\ Call("check_status", "GithubException")
          /\ status_data' = MergeLocal(POLLING_FAILED, local_review_item)
    /\ Emit(LocalResult(status_data', triggered_bots), 0)
    /\ UNCHANGED <<cfgVars, history, git, platVars, now, start_time, syncVars, triggered_bots,
                   res, local_review_item, attempt, sleeps>>

(***************************************************************************)
(* The status command.                                                     *)
(***************************************************************************)
EPOCH == 0

IsoTimes == 0..MaxTime

\* since_iso[:-1] + "+00:00" when since_iso ends with "Z".
ReplaceZ(str) ==
    IF \E t \in IsoTimes : str = Iso(t, "Z")
    THEN Iso(CHOOSE t \in IsoTimes : str = Iso(t, "Z"), "+00:00")
    ELSE str

\* datetime.fromisoformat: the time and whether it carries a time zone;
\* None for a string that raises ValueError.  The "Z" suffix is not
\* accepted (Python before 3.11).
fromisoformat(str) ==
    IF \E t \in IsoTimes : str = Iso(t, "+00:00")
    THEN [t |-> CHOOSE t \in IsoTimes : str = Iso(t, "+00:00"), tzinfo |-> TRUE]
    ELSE IF \E t \in IsoTimes : str = Iso(t, "")
    THEN [t |-> CHOOSE t \in IsoTimes : str = Iso(t, ""), tzinfo |-> FALSE]
    ELSE None

\* since_dt taking a since_iso that does not parse as later than every
\* item.
since_dt_invalid_as_latest(iso) ==
    IF iso = "" THEN EPOCH
    ELSE LET dt == fromisoformat(ReplaceZ(iso))
         IN IF dt = None THEN MaxTime + 1 ELSE dt.t

\* check_status: since_dt, the epoch unless since_iso is given and parses;
\* a naive time is taken as UTC.
since_dt(iso) ==
    IF iso = "" THEN EPOCH
    ELSE LET dt == fromisoformat(ReplaceZ(iso))
         IN IF dt = None THEN EPOCH ELSE dt.t

\* check_status: the warning printed on stderr when since_iso does not
\* parse.
InvalidTimestampWarning(iso) ==
    IF iso # "" /\ fromisoformat(ReplaceZ(iso)) = None
    THEN << <<"[AUDIT] Warning: Invalid timestamp ", iso, ", ignoring.">> >>
    ELSE <<>>

\* status posting the first review command again before it reads the
\* feedback.
status_retriggering ==
    /\ pc = "status"
    /\ issue_comments' = Append(issue_comments,
                                Comment(SELF_USER, <<REVIEW_COMMANDS[1]>>, now, now))
    /\ \/ /\ Call("check_status", "ok")
          /\ status_data' = check_status(issue_comments', review_comments, reviews,
                                         since_dt(since_iso), DEFAULT_VALIDATION_REVIEWER)
          /\ EmitLogged(status_data', 0, InvalidTimestampWarning(since_iso))
       \/ /\ Call("check_status", "GithubException")
          /\ \E text \in GithubErrors, lines \in {<<>>, InvalidTimestampWarning(since_iso)} :
                EmitLogged([status |-> "error",
                            message |-> <<"GitHub API Error: ">> \o _mask_token(text),
                            code |-> 1], 1, lines)
          /\ UNCHANGED status_data
    /\ UNCHANGED <<cfgVars, history, git, review_comments, reviews, env_events, now,
                   start_time, syncVars, triggered_bots, res, local_review_item,
                   attempt, sleeps>>

\* main, "status": check_status(pr_number, since) prints its output; a
\* GithubException is reported by print_error.
status ==
    /\ pc = "status"
    /\ \/ /\ Call("check_status", "ok")
          /\ status_data' = check_status(issue_comments, review_comments, reviews,
                                         since_dt(since_iso), DEFAULT_VALIDATION_REVIEWER)
          /\ EmitLogged(status_data', 0, InvalidTimestampWarning(since_iso))
       \/ /\ Call("check_status", "GithubException")
          /\ \E text \in GithubErrors, lines \in {<<>>, InvalidTimestampWarning(since_iso)} :
                EmitLogged([status |-> "error",
                            message |-> <<"GitHub API Error: ">> \o _mask_token(text),
                            code |-> 1], 1, lines)
          /\ UNCHANGED status_data
    /\ UNCHANGED <<cfgVars, history, git, platVars, now, start_time, syncVars, triggered_bots,
                   res, local_review_item, attempt, sleeps>>

(***************************************************************************)
(* The other parties: while the run sleeps, a reviewer may post a review,  *)
(* a general comment or an inline comment on the change request.           *)
(***************************************************************************)
Reviewers == {DEFAULT_VALIDATION_REVIEWER, OTHER_REVIEWER}
ReviewStates == {"APPROVED", "CHANGES_REQUESTED", "COMMENTED"}
Sleeping == pc \in {"tr_wait", "tr_local_wait", "poll_sleep"}

EnvPost ==
    /\ Sleeping
    /\ env_events < MaxEnvEvents
    /\ env_events' = env_events + 1
    /\ \E t \in {now, now + 1}, u \in Reviewers :
         /\ now' = t
         /\ \/ /\ \E st \in ReviewStates : reviews' = Append(reviews, Review(u, st, t))
               /\ UNCHANGED <<issue_comments, review_comments>>
            \/ /\ issue_comments' = Append(issue_comments, Comment(u, <<"comment">>, t, t))
               /\ UNCHANGED <<reviews, review_comments>>
            \/ /\ review_comments' = Append(review_comments, Comment(u, <<"inline">>, t, t))
               /\ UNCHANGED <<reviews, issue_comments>>
    /\ UNCHANGED <<cfgVars, history, git, pc, trace, start_time, syncVars, runVars, outVars>>

\* The caller follows the next_step of a poll that timed out or was
\* interrupted ("Poll again with 'status'", "Resume with 'status' command")
\* and starts the status command in a new process, and may do so again
\* after that one.  The new process has its own arguments, memory and
\* output; the change request and the repository are as the last one left
\* them.
resume_status ==
    /\ pc = "exit"
    /\ Len(history) < MaxResumes
    /\ \/ /\ command = "trigger_review"
          /\ stdout_json # <<>>
          /\ "next_step" \in DOMAIN stdout_json[1]
          /\ stdout_json[1].next_step
                \in {NEXT_INTERRUPTED, NEXT_TIMEOUT(DEFAULT_VALIDATION_REVIEWER)}
       \/ command = "status" /\ history # <<>>
    /\ history' = Append(history,
                         [command |-> command,
                          checks |-> Cardinality({i \in 1..Len(trace) :
                                                    trace[i].op = "check_status"}),
                          markers |-> Cardinality({i \in 1..Len(issue_comments) :
                                                     issue_comments[i].user = SELF_USER})])
    /\ command' = "status" /\ local' = FALSE /\ offline' = FALSE
    /\ wait_seconds' = 180
    /\ since_iso' = ""
    /\ pc' = "main"
    /\ trace' = <<>>
    /\ is_safe_msg' = None /\ rev_list' = None
    /\ res' = None
    /\ start_time' = NoTime
    /\ triggered_bots' = <<>>
    /\ local_review_item' = None
    /\ status_data' = None
    /\ attempt' = 0
    /\ sleeps' = 0
    /\ stdout_json' = <<>>
    /\ exit_code' = -1
    /\ stderr' = <<>>
    /\ UNCHANGED <<git, platVars, now>>

Next ==
    \/ main
    \/ trigger_review_start
    \/ _verify_clean_git_status
    \/ _verify_clean_git_branch
    \/ _check_local_state_fetch
    \/ _check_local_state_branch
    \/ _check_local_state_upstream
    \/ _check_local_state_revlist
    \/ safe_push_upstream
    \/ safe_push_push
    \/ trigger_review_agent
    \/ trigger_review_get_pull
    \/ trigger_review_post
    \/ trigger_review_wait
    \/ _poll_for_main_reviewer_check
    \/ _poll_for_main_reviewer_sleep
    \/ trigger_review_local_wait
    \/ trigger_review_local_check
    \/ status
    \/ resume_status
    \/ EnvPost

Spec == Init /\ [][Next]_vars

(***************************************************************************)
(* The status command applied to every change request within the bounds:   *)
(* any review history in chronological order, any comments, any --since.   *)
(***************************************************************************)
Times == 1..MaxTime

SeqsUpTo(S, n) == UNION {[1..k -> S] : k \in 0..n}

\* A review its author has started and not yet submitted: the platform
\* lists it, to its author only, with state PENDING and no submitted_at.
PendingReview == Review(SELF_USER, "PENDING", NoTime)

\* Review histories as pr.get_reviews() lists them, oldest first; a review
\* not yet submitted may sit anywhere among the submitted ones.
ReviewHistories ==
    {h \in SeqsUpTo([user : Reviewers, state : ReviewStates, submitted_at : Times]
                       \cup {PendingReview}, MaxItems) :
        \A i, j \in 1..Len(h) :
            (i < j /\ h[i] # PendingReview /\ h[j] # PendingReview)
                => h[i].submitted_at <= h[j].submitted_at}

\* Comments as the platform lists them, oldest first; an edited comment has
\* updated_at later than created_at.
CommentLists(body, n) ==
    {l \in SeqsUpTo({c \in [user : Reviewers, body : {body}, created_at : Times, updated_at : Times] :
                        c.created_at <= c.updated_at}, n) :
        \A i \in 1..Len(l) - 1 : l[i].created_at <= l[i + 1].created_at}

\* --since: absent, or a time with older and newer feedback around it.
SinceValues == {"", Iso(2, "Z")}

StatusInit ==
    /\ command = "status" /\ local = FALSE /\ offline = FALSE
    /\ wait_seconds = 180
    /\ since_iso \in SinceValues
    /\ git \in {[dirty |-> FALSE, branch |-> "main", upstream |-> TRUE, ahead |-> 0, behind |-> 0]}
    /\ pc = "main"
    /\ trace = <<>>
    /\ reviews \in ReviewHistories
    /\ issue_comments \in CommentLists(<<"comment">>, MaxItems - Len(reviews))
    /\ review_comments \in CommentLists(<<"inline">>,
                                        MaxItems - Len(reviews) - Len(issue_comments))
    /\ now = MaxTime
    /\ env_events = 0
    /\ is_safe_msg = None
    /\ rev_list = None
    /\ res = None
    /\ start_time = NoTime
    /\ triggered_bots = <<>>
    /\ local_review_item = None
    /\ status_data = None
    /\ attempt = 0
    /\ sleeps = 0
    /\ stdout_json = <<>>
    /\ exit_code = -1
    /\ stderr = <<>>
    /\ history = <<>>

StatusNext ==
    \/ main
    \/ status

StatusSpec == StatusInit /\ [][StatusNext]_vars

(***************************************************************************)
(* pr_helper.py: the fetch command.                                        *)
(***************************************************************************)
\* The JSON "gh api" returns: timestamps are ISO 8601 strings with the
\* suffix "Z", and a review not yet submitted has submitted_at null, which
\* is written "" here (both are falsy).
ApiReview(r) ==
    [user |-> r.user, state |-> r.state,
     submitted_at |-> IF r.submitted_at = NoTime THEN "" ELSE Iso(r.submitted_at, "Z")]
ApiComment(c) ==
    [user |-> c.user, body |-> c.body,
     created_at |-> Iso(c.created_at, "Z"), updated_at |-> Iso(c.updated_at, "Z")]

\* run_gh_api: the parsed response, [] when the call or the decoding failed.
run_gh_api(response, ok) == IF ok THEN response ELSE <<>>

\* get_all_feedback: reviews, inline comments and issue comments, in that
\* order of calls; ok[k] tells whether the k-th call succeeded.
get_all_feedback(ok) ==
    [reviews |-> run_gh_api([i \in 1..Len(reviews) |-> ApiReview(reviews[i])], ok[1]),
     inline_comments |->
         run_gh_api([i \in 1..Len(review_comments) |-> ApiComment(review_comments[i])], ok[2]),
     issue_comments |->
         run_gh_api([i \in 1..Len(issue_comments) |-> ApiComment(issue_comments[i])], ok[3])]

\* parse_ts: the time of an ISO 8601 string, a naive one taken as UTC; None
\* (NoTime) for a falsy or unparsable string.
parse_ts(ts_str) ==
    IF ts_str = "" THEN NoTime
    ELSE LET dt == fromisoformat(ReplaceZ(ts_str))
         IN IF dt = None THEN NoTime ELSE dt.t

\* filter_feedback_since: item.get('submitted_at') or item.get('updated_at')
\* or item.get('created_at').
ItemTimestamp(item) ==
    LET get(key) == IF key \in DOMAIN item THEN item[key] ELSE ""
    IN IF get("submitted_at") # "" THEN get("submitted_at")
       ELSE IF get("updated_at") # "" THEN get("updated_at")
       ELSE get("created_at")

\* filter_feedback_since, process_items: the items newer than since_dt,
\* labelled.
process_items(items, label, since) ==
    LET new(item) == LET item_dt == parse_ts(ItemTimestamp(item))
                     IN item_dt # NoTime /\ item_dt > since
        kept == SelectSeq(items, new)
    IN [i \in 1..Len(kept) |-> ("_type" :> label) @@ kept[i]]

\* filter_feedback_since: since_dt, the epoch when since_iso does not
\* parse.
helper_since_dt(iso) == IF parse_ts(iso) = NoTime THEN EPOCH ELSE parse_ts(iso)

\* filter_feedback_since: new_items.
filter_feedback_since(feedback, iso) ==
    process_items(feedback.reviews, "review_summary", helper_since_dt(iso))
      \o process_items(feedback.inline_comments, "inline_comment", helper_since_dt(iso))
      \o process_items(feedback.issue_comments, "issue_comment", helper_since_dt(iso))

\* filter_feedback_since: the warning printed on stderr when since_iso
\* does not parse.
HelperSinceWarning(iso) ==
    IF parse_ts(iso) = NoTime
    THEN << <<"Warning: invalid --since timestamp ", iso,
              "; falling back to 1970-01-01T00:00:00Z">> >>
    ELSE <<>>

\* main of pr_helper.py: the dispatch on the sub-command.
pr_helper_main ==
    /\ pc = "main"
    /\ command = "fetch"
    /\ pc' = "cmd_fetch"
    /\ UNCHANGED <<cfgVars, history, git, trace, platVars, now, start_time, syncVars,
                   runVars, outVars>>

\* cmd_fetch without --output: the three API calls, the filter, and the
\* new items printed on stdout as one JSON list when there are any.
cmd_fetch ==
    /\ pc = "cmd_fetch"
    /\ \E ok \in [1..3 -> BOOLEAN] :
         LET new_items == filter_feedback_since(get_all_feedback(ok), since_iso)
             outcome(k) == IF ok[k] THEN "ok" ELSE "CalledProcessError"
             errors == SelectSeq([k \in 1..3 |-> IF ok[k] THEN <<>>
                                                 ELSE <<"Error calling GitHub API: ">>],
                                 LAMBDA l : l # <<>>)
         IN /\ trace' = trace \o [k \in 1..3 |-> [op |-> "gh api", outcome |-> outcome(k)]]
            /\ stdout_json' = IF new_items # <<>> THEN Append(stdout_json, new_items)
                              ELSE stdout_json
            /\ stderr' = stderr \o errors \o HelperSinceWarning(since_iso)
                            \o IF new_items # <<>>
                               THEN << <<"Found new feedback: ">> >>
                               ELSE << <<"No new feedback since ", since_iso, ".">> >>
    /\ exit_code' = 0
    /\ pc' = "exit"
    /\ UNCHANGED <<cfgVars, history, git, platVars, now, start_time, syncVars, runVars>>

\* --since of a fetch: a string that is no timestamp, a time with older
\* and newer feedback around it, and the epoch.
INVALID_SINCE == "yesterday"
FetchSinceValues == {INVALID_SINCE, Iso(2, "Z"), Iso(EPOCH, "Z")}

\* The status command of pr_skill.py and the fetch command of pr_helper.py
\* applied to the same change requests.
FetchInit ==
    /\ command \in {"status", "fetch"} /\ local = FALSE /\ offline = FALSE
    /\ wait_seconds = 180
    /\ since_iso \in FetchSinceValues
    /\ git \in {[dirty |-> FALSE, branch |-> "main", upstream |-> TRUE, ahead |-> 0, behind |-> 0]}
    /\ pc = "main"
    /\ trace = <<>>
    /\ reviews \in {h \in ReviewHistories : Len(h) < MaxItems}
    /\ issue_comments \in CommentLists(<<"comment">>, MaxItems - 1 - Len(reviews))
    /\ review_comments \in CommentLists(<<"inline">>,
                                        MaxItems - 1 - Len(reviews) - Len(issue_comments))
    /\ now = MaxTime
    /\ env_events = 0
    /\ is_safe_msg = None
    /\ rev_list = None
    /\ res = None
    /\ start_time = NoTime
    /\ triggered_bots = <<>>
    /\ local_review_item = None
    /\ status_data = None
    /\ attempt = 0
    /\ sleeps = 0
    /\ stdout_json = <<>>
    /\ exit_code = -1
    /\ stderr = <<>>
    /\ history = <<>>

FetchNext ==
    \/ main
    \/ status
    \/ pr_helper_main
    \/ cmd_fetch

FetchSpec == FetchInit /\ [][FetchNext]_vars

(***************************************************************************)
(* Properties.                                                             *)
(***************************************************************************)
Did(op) == \E i \in 1..Len(trace) : trace[i].op = op
Count(op) == Cardinality({i \in 1..Len(trace) : trace[i].op = op})
LastCall == trace[Len(trace)]
Exited == pc = "exit"
Result == stdout_json[Len(stdout_json)]
OwnComments == SelectSeq(issue_comments, LAMBDA c : c.user = SELF_USER)
Posted == [i \in 1..Len(OwnComments) |-> OwnComments[i].body[1]]
IsPrefix(a, b) == Len(a) <= Len(b) /\ \A i \in 1..Len(a) : a[i] = b[i]
Range(seq) == {seq[i] : i \in 1..Len(seq)}
NetworkOps == {"git fetch", "git push", "get_pull", "create_issue_comment", "check_status"}
Synced(g) ==
    ~g.dirty /\ g.branch # "HEAD" /\ g.upstream /\ g.ahead = 0 /\ g.behind = 0

\* C1: in a run of trigger_review that is not offline, a marker comment is
\* posted or the review agent is started only after _check_local_state
\* returned success in that run; when it returned failure the run has ended
\* with one error result and no comment has been posted.
C1_PushBeforeTrigger ==
    (command = "trigger_review" /\ ~offline) =>
        /\ (Did("agent") \/ Did("get_pull") \/ Did("create_issue_comment") \/ Posted # <<>>)
             => (is_safe_msg # None /\ is_safe_msg[1])
        /\ (is_safe_msg # None /\ ~is_safe_msg[1])
             => /\ Exited
                /\ exit_code = 1
                /\ Len(stdout_json) = 1
                /\ Result.status = "error"
                /\ Posted = <<>>
                /\ ~Did("agent")

\* The gate refused an online run whose branch has unpushed commits.
C1_Witness ==
    /\ command = "trigger_review" /\ ~offline /\ ~local
    /\ is_safe_msg # None /\ ~is_safe_msg[1]
    /\ git.ahead > 0 /\ ~git.dirty
    /\ Did("git rev-list")
    /\ Exited

C3_SuccessOnlyWhenSynced ==
    /\ (is_safe_msg # None /\ is_safe_msg[1])
         => /\ Synced(git)
            /\ rev_list # None
            /\ rev_list.returncode = 0
            /\ rev_list.stdout = <<"0", "0">>
    /\ (rev_list # None /\ rev_list.stdout # <<"0", "0">>)
         => (is_safe_msg # None /\ ~is_safe_msg[1])

\* _check_local_state returned success.
C3_Witness ==
    /\ is_safe_msg # None /\ is_safe_msg[1]
    /\ Synced(git)
    /\ Did("git rev-list")

\* C4: the Sync Verifier runs git status, the branch query, the upstream
\* query, git fetch and git rev-list in that order and stops at the first
\* failure; a branch with no upstream is refused with the no-upstream
\* message without git fetch having run.
SyncOps == SelectSeq(trace, LAMBDA c : c.op \in {"git status", "git rev-parse HEAD",
                                               "git rev-parse @{u}", "git fetch", "git rev-list"})
C4_UpstreamCheckedBeforeFetch ==
    (command = "trigger_review" /\ ~offline) =>
        /\ IsPrefix([i \in 1..Len(SyncOps) |-> SyncOps[i].op],
                    <<"git status", "git rev-parse HEAD", "git rev-parse @{u}",
                      "git fetch", "git rev-list">>)
        /\ (is_safe_msg = <<FALSE, NoUpstreamMessage(git.branch)>>) => ~Did("git fetch")

\* C5 as stated: safe_push attempts git push if and only if the tree is
\* clean, HEAD is a named branch and an upstream is configured.
C5_PushIffCleanNamedTracked ==
    (command = "safe_push" /\ Exited) =>
        (Did("git push") <=> (~git.dirty /\ git.branch # "HEAD" /\ git.upstream))

QueriesCompleted ==
    \A i \in 1..Len(trace) :
        trace[i].op \in {"git status", "git rev-parse HEAD", "git rev-parse @{u}"}
            => trace[i].outcome \in {"ok", "nonzero"}

\* C5 (amended): safe_push attempts git push if and only if the tree is
\* clean, HEAD is a named branch, an upstream is configured and none of its
\* three git queries raised (timeout, missing executable, failed command);
\* it runs neither git rev-list nor git fetch, whatever the ahead and
\* behind counts are.
C5_PushIffVerifiedAndQueriesRan ==
    /\ (command = "safe_push" /\ Exited) =>
          (Did("git push") <=>
              (~git.dirty /\ git.branch # "HEAD" /\ git.upstream /\ QueriesCompleted))
    /\ command = "safe_push" => ~Did("git rev-list") /\ ~Did("git fetch")

\* safe_push reached git push on a branch that is behind its upstream.
C5_Witness ==
    /\ command = "safe_push"
    /\ Did("git push")
    /\ git.behind > 0
    /\ Exited

\* The failure kind a reader of safe_push's result can tell from it.
PublisherFailure(r) ==
    IF r.message[1] = "No upstream configured for branch '" THEN "NoUpstream"
    ELSE IF Len(r.message) >= 4 /\ r.message[1] = "Push failed or timed out: "
            /\ r.message[4] = "' returned non-zero exit status "
    THEN "PushRejected"
    ELSE IF Len(r.message) >= 4 /\ r.message[1] = "Push failed or timed out: "
            /\ r.message[4] = "' timed out after "
    THEN "PushTimeout"
    ELSE "Other"

\* C6: the result of safe_push tells a missing upstream, a rejected push
\* and a timed-out push apart: each of the three is recognised from the
\* result, and a result recognised as one of them came from that failure.
C6_PublisherFailuresDistinct ==
    (command = "safe_push" /\ Exited) =>
        /\ Result.status = "error"
             => /\ (PublisherFailure(Result) = "NoUpstream")
                     <=> (LastCall = [op |-> "git rev-parse @{u}", outcome |-> "nonzero"])
                /\ (PublisherFailure(Result) = "PushRejected")
                     <=> (LastCall = [op |-> "git push", outcome |-> "CalledProcessError"])
                /\ (PublisherFailure(Result) = "PushTimeout")
                     <=> (LastCall = [op |-> "git push", outcome |-> "TimeoutExpired"])
        /\ LastCall.outcome \notin {"ok"} => Result.status = "error"

\* A push that timed out was reported.
C6_Witness ==
    /\ command = "safe_push" /\ Exited
    /\ LastCall = [op |-> "git push", outcome |-> "TimeoutExpired"]
    /\ PublisherFailure(Result) = "PushTimeout"

\* C7: in online mode the comments posted so far are at every point a
\* prefix of REVIEW_COMMANDS, posted after a successful sync check;
\* triggered_bots of a success result is the whole list in order; with
\* wait_seconds > 0 the poll loop is entered once all are posted.
Online == command = "trigger_review" /\ ~local /\ ~offline
C7_MarkersInOrder ==
    Online =>
        /\ IsPrefix(Posted, REVIEW_COMMANDS)
        /\ triggered_bots = Posted
        /\ Count("create_issue_comment") <= Len(Posted) + 1
        /\ Posted # <<>> => (is_safe_msg # None /\ is_safe_msg[1])
        /\ (Exited /\ Result.status = "success")
             => /\ Result.triggered_bots = REVIEW_COMMANDS
                /\ Posted = REVIEW_COMMANDS
                /\ wait_seconds > 0 => attempt >= 1 /\ Did("check_status")
        /\ (Posted = REVIEW_COMMANDS /\ wait_seconds > 0)
             => \/ pc \in {"tr_wait", "poll_check", "poll_sleep"}
                \/ Exited /\ attempt >= 1

\* An online run posted every marker, polled and returned success.
C7_Witness ==
    /\ Online /\ wait_seconds > 0
    /\ Exited /\ Result.status = "success"
    /\ Posted = REVIEW_COMMANDS
    /\ Did("check_status")

\* C8: an offline run performs no operation but the run of the agent: no
\* git command, no platform call, no comment, no sleep; on agent success
\* it returns at once a success result holding exactly the one synthetic
\* offline_review item, whose body is the agent's output without its
\* terminal control sequences.
C8_OfflineNeverTouchesNetwork ==
    (command = "trigger_review" /\ offline) =>
        /\ \A i \in 1..Len(trace) : trace[i].op = "agent"
        /\ Len(trace) <= 1
        /\ issue_comments = <<>> /\ sleeps = 0 /\ attempt = 0 /\ is_safe_msg = None
        /\ (trace # <<>> /\ LastCall.outcome = "ok")
             => /\ Exited /\ exit_code = 0 /\ Len(stdout_json) = 1
                /\ Result.status = "success"
                /\ Result.initial_status.new_item_count = 1
                /\ Len(Result.initial_status.items) = 1
                /\ LET item == Result.initial_status.items[1]
                   IN /\ item.type = "offline_review"
                      /\ item.user = "gemini-cli-review"
                      /\ ESC \notin Range(item.body)
                      /\ res.stdout = <<"Mock feedback">> => item.body = <<"Mock feedback">>
                      /\ res.stdout = <<ESC, "Mock ", ESC, "feedback">>
                           => item.body = <<"Mock ", "feedback">>
                /\ Result.initial_status.main_reviewer =
                     [user |-> "gemini-cli-review", state |-> "COMMENTED"]

\* An offline run returned the agent's output, control sequences removed.
C8_Witness ==
    /\ command = "trigger_review" /\ offline
    /\ Exited /\ Result.status = "success"
    /\ res.stdout = <<ESC, "Mock ", ESC, "feedback">>
    /\ git.dirty

\* C9: in local mode no marker comment is posted and the poll loop is
\* never entered; after the agent succeeded the run sleeps once, calls
\* check_status once and returns a success result whose items are the
\* synthetic local_review item followed by the fetched items in their
\* order, with new_item_count the length of that list.
C9_LocalOneFetchMerged ==
    (command = "trigger_review" /\ local) =>
        /\ ~Did("create_issue_comment") /\ ~Did("get_pull") /\ Posted = <<>>
        /\ attempt = 0
        /\ Count("check_status") <= 1 /\ Count("sleep") <= 1
        /\ Did("check_status")
             => /\ Len(trace) >= 3
                /\ trace[Len(trace) - 2] = [op |-> "agent", outcome |-> "ok"]
                /\ trace[Len(trace) - 1].op = "sleep"
                /\ LastCall.op = "check_status"
        /\ (res # None /\ res.returncode = 0 /\ Exited)
             => /\ Result.status = "success"
                /\ Count("check_status") = 1 /\ Count("sleep") = 1
                /\ LET d == Result.initial_status
                       fetched == IF LastCall.outcome = "ok"
                                  THEN new_feedback(issue_comments, review_comments,
                                                    reviews, start_time)
                                  ELSE <<>>
                   IN /\ d.items[1] = local_review_item
                      /\ d.items[1].type = "local_review"
                      /\ d.items[1].user = "gemini-cli-review"
                      /\ Tail(d.items) = fetched
                      /\ d.new_item_count = Len(fetched) + 1
                      /\ d.new_item_count = Len(d.items)

\* A local run returned the synthetic item in front of two online items.
C9_Witness ==
    /\ command = "trigger_review" /\ local
    /\ Exited /\ Result.status = "success"
    /\ Len(Result.initial_status.items) = 3
    /\ Result.initial_status.items[2].type = "issue_comment"
    /\ Result.initial_status.items[3].type = "review_summary"

\* The failure of the review agent a reader of the error can tell from it.
AgentFailure(r) ==
    IF Len(r.message) < 2 THEN "Other"
    ELSE IF r.message[2] = " reviewer failed with exit code " THEN "nonzero"
    ELSE IF r.message[2] = " reviewer timed out after " THEN "TimeoutExpired"
    ELSE IF r.message[2] = " reviewer executable not found. Ensure npx/gemini-cli is installed. Error: "
    THEN "FileNotFoundError"
    ELSE "Other"

\* C10: an agent that is not found, times out or exits non-zero ends
\* trigger_review with one error result that tells which of the three it
\* was; no synthetic item is produced and nothing runs after the agent; on
\* a non-zero exit the error holds the captured stderr and stdout (the
\* token redacted).
C10_AgentFailuresDistinct ==
    /\ (command = "trigger_review" /\ Did("agent") /\ LastCall.op = "agent"
          /\ LastCall.outcome # "ok") =>
           /\ Exited /\ exit_code = 1 /\ Len(stdout_json) = 1
           /\ Result.status = "error"
           /\ AgentFailure(Result) = LastCall.outcome
           /\ local_review_item = None /\ triggered_bots = <<>>
           /\ sleeps = 0 /\ ~Did("check_status") /\ status_data = None
           /\ LastCall.outcome = "nonzero"
                => /\ \A f \in Range(res.stdout) \cup Range(res.stderr) :
                         f # TOKEN => f \in Range(Result.message)
                   /\ TOKEN \notin Range(Result.message)
    /\ (command = "trigger_review" /\ Did("agent") /\ LastCall.op # "agent") =>
           \E i \in 1..Len(trace) : trace[i] = [op |-> "agent", outcome |-> "ok"]

\* A local run whose agent exited non-zero with output on both streams.
C10_Witness ==
    /\ command = "trigger_review" /\ local
    /\ Exited
    /\ LastCall = [op |-> "agent", outcome |-> "nonzero"]
    /\ res.stderr # <<>>
    /\ res.stdout # <<>>


(***************************************************************************)
(* The classification of a finished status check, stated on the platform's *)
(* data and on the items of the printed result.                            *)
(***************************************************************************)
Primary == DEFAULT_VALIDATION_REVIEWER
StatusDone == command = "status" /\ Exited /\ Result.status = "success"
Window == Result.items
PrimaryReviewIdx == {i \in 1..Len(reviews) : reviews[i].user = Primary}
PrimaryApprovalIdx == {i \in PrimaryReviewIdx : reviews[i].state = "APPROVED"}
Last(S) == CHOOSE i \in S : \A j \in S : j <= i
LatestState == IF PrimaryReviewIdx = {} THEN "PENDING" ELSE reviews[Last(PrimaryReviewIdx)].state
LastApproval ==
    IF PrimaryApprovalIdx = {} THEN NoTime ELSE reviews[Last(PrimaryApprovalIdx)].submitted_at
IsPrimaryApproval(it) ==
    it.type = "review_summary" /\ it.user = Primary /\ it.state = "APPROVED"
IsPrimaryComment(it) ==
    /\ it.user = Primary
    /\ \/ it.type \in {"issue_comment", "inline_comment"}
       \/ it.type = "review_summary" /\ it.state = "COMMENTED"
ChangesRequested ==
    \E it \in Range(Window) : it.type = "review_summary" /\ it.state = "CHANGES_REQUESTED"
NewCommentsAfterApproval ==
    /\ LastApproval # NoTime
    /\ \E it \in Range(Window) : IsPrimaryComment(it) /\ it.created_at >= LastApproval
OtherItems == {it \in Range(Window) : ~IsPrimaryApproval(it)}

\* C11: the status check derives next_step by first match in the order
\* changes requested, new comments after approval, approved with no other
\* item (stop), approved with other items (address feedback), any item
\* (address feedback), nothing (wait and poll again).
C11_PriorityOrder ==
    StatusDone =>
        Result.next_step =
            IF ChangesRequested THEN NEXT_CHANGES_REQUESTED
            ELSE IF NewCommentsAfterApproval THEN NEXT_NEW_COMMENTS(Primary)
            ELSE IF LatestState = "APPROVED" /\ OtherItems = {} THEN NEXT_STOP
            ELSE IF LatestState = "APPROVED" THEN NEXT_NEW_FEEDBACK
            ELSE IF Window # <<>> THEN NEXT_NEW_FEEDBACK
            ELSE NEXT_WAIT(Primary, LatestState)

\* Changes requested and a comment after the approval are both present and
\* the primary reviewer's latest state is APPROVED: the first rule wins.
C11_Witness ==
    /\ StatusDone
    /\ ChangesRequested /\ NewCommentsAfterApproval /\ LatestState = "APPROVED"
    /\ Result.next_step = NEXT_CHANGES_REQUESTED

\* C12: when the primary reviewer's latest review among the items of the
\* window is CHANGES_REQUESTED, the instruction is the changes-requested
\* one, whatever else the window and the history hold.
PrimaryWindowReviews ==
    SelectSeq(Window, LAMBDA it : it.type = "review_summary" /\ it.user = Primary)
C12_ChangesRequestedWins ==
    (/\ StatusDone
     /\ PrimaryWindowReviews # <<>>
     /\ PrimaryWindowReviews[Len(PrimaryWindowReviews)].state = "CHANGES_REQUESTED")
        => Result.next_step = NEXT_CHANGES_REQUESTED

\* The primary reviewer approved and then requested changes, another
\* reviewer approved after that, and a comment is in the window too.
C12_Witness ==
    /\ StatusDone
    /\ Len(PrimaryWindowReviews) >= 2
    /\ PrimaryWindowReviews[1].state = "APPROVED"
    /\ PrimaryWindowReviews[Len(PrimaryWindowReviews)].state = "CHANGES_REQUESTED"
    /\ Window[Len(Window)].user = OTHER_REVIEWER /\ Window[Len(Window)].state = "APPROVED"
    /\ Result.next_step = NEXT_CHANGES_REQUESTED

C14_StaleApprovalNeverDone ==
    (/\ StatusDone
     /\ \/ ChangesRequested
        \/ NewCommentsAfterApproval
        \/ OtherItems # {})
        => Result.next_step # NEXT_STOP

\* The primary reviewer's latest state is APPROVED and the window holds
\* only a comment of another reviewer: the instruction is to address it.
C14_Witness ==
    /\ StatusDone
    /\ LatestState = "APPROVED"
    /\ ~ChangesRequested /\ ~NewCommentsAfterApproval
    /\ \E it \in Range(Window) : it.type = "issue_comment" /\ it.user = OTHER_REVIEWER
    /\ \A it \in Range(Window) : it.type # "review_summary"
    /\ Result.next_step = NEXT_NEW_FEEDBACK

\* C15: when the window holds only APPROVED reviews of the primary
\* reviewer, at least one, and their latest state in the full history is
\* APPROVED, the instruction is the terminal stop.
C15_ApprovedOnlyStops ==
    (/\ StatusDone
     /\ Window # <<>>
     /\ OtherItems = {}
     /\ LatestState = "APPROVED")
        => Result.next_step = NEXT_STOP

\* A status check whose window holds one approval of the primary reviewer
\* and nothing else ended with the terminal stop.
C15_Witness ==
    /\ StatusDone
    /\ Len(Window) = 1 /\ IsPrimaryApproval(Window[1])
    /\ LatestState = "APPROVED"
    /\ Result.next_step = NEXT_STOP

\* C16: with an empty window and no review of the primary reviewer in the
\* history (state PENDING) the instruction is to wait and poll again.
C16_EmptyPendingWaits ==
    (StatusDone /\ Window = <<>> /\ PrimaryReviewIdx = {})
        => /\ Result.main_reviewer.state = "PENDING"
           /\ Result.next_step = NEXT_WAIT(Primary, "PENDING")
           /\ Result.next_step # NEXT_STOP

\* A status check with --since later than everything on the change
\* request, which holds reviews of another reviewer only, ended with the
\* wait instruction.
C16_Witness ==
    /\ StatusDone
    /\ Window = <<>> /\ PrimaryReviewIdx = {} /\ reviews # <<>>
    /\ Result.next_step = NEXT_WAIT(Primary, "PENDING")

\* C17: the primary reviewer's state is that of their last review in the
\* full history (PENDING without one) and the approval timestamp is that
\* of their last APPROVED review in the full history (none without one),
\* whatever --since is.
C17_StateAndApprovalIndependent ==
    StatusDone =>
        /\ Result.main_reviewer.state = LatestState
        /\ main_reviewer_state(reviews, Primary) = LatestState
        /\ main_reviewer_last_approval_dt(reviews, Primary) = LastApproval

\* The primary reviewer approved and later only commented, both before
\* --since: the state is COMMENTED and the approval timestamp is found.
C17_Witness ==
    /\ StatusDone
    /\ LatestState = "COMMENTED"
    /\ LastApproval # NoTime
    /\ since_dt(since_iso) > LastApproval
    /\ Result.main_reviewer.state = "COMMENTED"
    /\ main_reviewer_last_approval_dt(reviews, Primary) = LastApproval

(***************************************************************************)
(* The poll loop of an online trigger_review.                              *)
(***************************************************************************)
InPoll == command = "trigger_review" /\ ~local /\ ~offline /\ attempt >= 1
HasItems(d) == d # None /\ "items" \in DOMAIN d
PrimaryItemIn(d) == \E it \in Range(d.items) : it.user = Primary
TimeoutFlag(d) == "polling_timeout" \in DOMAIN d
InterruptFlag(d) == "polling_interrupted" \in DOMAIN d
Returned == Exited /\ Result.status = "success" /\ "initial_status" \in DOMAIN Result

\* C18: the poll loop returns at the first attempt whose items since the
\* trigger hold an item of the primary reviewer, with that attempt's status,
\* no timeout or interruption flag and no further sleep; an attempt whose
\* items hold none never returns unflagged, whatever the reviewer's state
\* in the history is.
C18_PollResolvesOnNewPrimaryItem ==
    (InPoll /\ HasItems(status_data)) =>
        /\ PrimaryItemIn(status_data) =>
              /\ Returned
              /\ Result.initial_status = status_data
              /\ ~TimeoutFlag(status_data) /\ ~InterruptFlag(status_data)
              /\ LastCall = [op |-> "check_status", outcome |-> "ok"]
              /\ Count("check_status") = attempt
              /\ Count("sleep") = attempt
        /\ (Returned /\ ~TimeoutFlag(status_data) /\ ~InterruptFlag(status_data))
              => PrimaryItemIn(status_data)
        /\ pc = "poll_sleep" => ~PrimaryItemIn(status_data)

\* The primary reviewer approved before the trigger; the first attempt saw
\* the state APPROVED and no new item and slept, the second attempt saw a
\* new item of theirs and returned.
C18_Witness ==
    /\ InPoll /\ Returned
    /\ attempt = 2
    /\ reviews # <<>>
    /\ reviews[1] = Review(Primary, "APPROVED", 1)
    /\ start_time > 1
    /\ HasItems(status_data) /\ PrimaryItemIn(status_data)
    /\ ~TimeoutFlag(status_data)

\* C19: the poll loop never makes more than POLL_MAX_ATTEMPTS attempts;
\* without an item of the primary reviewer it makes exactly that many, with
\* one sleep between two attempts and none after the last, and returns the
\* last observation flagged polling_timeout.
C19_PollBounded ==
    InPoll =>
        /\ attempt <= POLL_MAX_ATTEMPTS
        /\ Count("check_status") <= POLL_MAX_ATTEMPTS
        /\ Count("sleep") - 1 <= POLL_MAX_ATTEMPTS - 1
        /\ (Returned /\ HasItems(status_data) /\ TimeoutFlag(status_data)) =>
              /\ Count("check_status") = POLL_MAX_ATTEMPTS
              /\ Count("sleep") - 1 = POLL_MAX_ATTEMPTS - 1
              /\ LastCall = [op |-> "check_status", outcome |-> "ok"]
              /\ ~PrimaryItemIn(status_data)
              /\ status_data.items = new_feedback(issue_comments, review_comments, reviews,
                                                  start_time)
              /\ status_data.next_step = NEXT_TIMEOUT(Primary)
              /\ Result.initial_status = status_data
        /\ (/\ Exited
            /\ Count("check_status") = POLL_MAX_ATTEMPTS
            /\ LastCall = [op |-> "check_status", outcome |-> "ok"]
            /\ HasItems(status_data) /\ ~PrimaryItemIn(status_data))
              => TimeoutFlag(status_data)

\* The loop ran out of attempts while another reviewer posted during a
\* sleep.
C19_Witness ==
    /\ InPoll /\ Returned
    /\ HasItems(status_data) /\ TimeoutFlag(status_data)
    /\ Count("check_status") = POLL_MAX_ATTEMPTS
    /\ env_events > 0

\* C20: a run that entered the poll loop leaves it resolved, timed out or
\* interrupted, and in no other way, a platform error during an attempt
\* included.
Resolved ==
    Returned /\ HasItems(status_data) /\ PrimaryItemIn(status_data)
      /\ ~TimeoutFlag(status_data) /\ ~InterruptFlag(status_data)
PollTimedOut == Returned /\ status_data # None /\ TimeoutFlag(status_data)
PollInterrupted == Returned /\ status_data # None /\ InterruptFlag(status_data)
C20_PollingLeavesInThreeOutcomes ==
    (InPoll /\ Exited) =>
        \/ Resolved /\ ~PollTimedOut /\ ~PollInterrupted
        \/ PollTimedOut /\ ~Resolved /\ ~PollInterrupted
        \/ PollInterrupted /\ ~Resolved /\ ~PollTimedOut

\* C21: the poll result distinguishes interruption from timeout.  A poll
\* ended by a KeyboardInterrupt returns polling_interrupted = TRUE with the
\* INTERRUPTED next_step, a poll that ran out of attempts returns
\* polling_timeout = TRUE with the TIMEOUT next_step, no status data carries
\* both flags, and status data holding an item of the primary reviewer
\* carries neither.
C21_InterruptDistinctFromTimeout ==
    (InPoll /\ status_data # None) =>
        /\ ~(TimeoutFlag(status_data) /\ InterruptFlag(status_data))
        /\ (Exited /\ LastCall.outcome = "KeyboardInterrupt") =>
              /\ Returned
              /\ InterruptFlag(status_data) /\ status_data.polling_interrupted = TRUE
              /\ status_data.next_step = NEXT_INTERRUPTED
              /\ Result.next_step = NEXT_INTERRUPTED
              /\ Result.message = <<"Triggered reviews; polling was interrupted.">>
        /\ InterruptFlag(status_data) =>
              /\ Exited /\ LastCall.outcome = "KeyboardInterrupt"
              /\ LastCall.op \in {"sleep", "check_status"}
        /\ TimeoutFlag(status_data) =>
              /\ Returned
              /\ status_data.polling_timeout = TRUE
              /\ status_data.next_step = NEXT_TIMEOUT(Primary)
              /\ Result.next_step = NEXT_TIMEOUT(Primary)
              /\ Result.message
                    = <<"Triggered reviews and polled for main reviewer feedback.">>
              /\ LastCall = [op |-> "check_status", outcome |-> "ok"]
              /\ Count("check_status") = POLL_MAX_ATTEMPTS
        /\ (HasItems(status_data) /\ PrimaryItemIn(status_data)) =>
              /\ ~TimeoutFlag(status_data) /\ ~InterruptFlag(status_data)
              /\ status_data.next_step \notin {NEXT_INTERRUPTED, NEXT_TIMEOUT(Primary)}

\* The first attempt saw no item of the primary reviewer and the sleep
\* after it was interrupted: the observation comes back flagged
\* polling_interrupted.
C21_Witness ==
    /\ InPoll /\ Returned
    /\ HasItems(status_data) /\ InterruptFlag(status_data)
    /\ ~TimeoutFlag(status_data)
    /\ LastCall = [op |-> "sleep", outcome |-> "KeyboardInterrupt"]
    /\ Count("check_status") = 1

\* C22: a KeyboardInterrupt that ends a sleep of the poll (the wait
\* before the first attempt or the sleep between two attempts) is followed
\* by one more check_status before the run returns.
CancelledSleep(i) == trace[i] = [op |-> "sleep", outcome |-> "KeyboardInterrupt"]
C22_CancelledSleepChecksAtOnce ==
    (command = "trigger_review" /\ ~local /\ ~offline /\ Exited) =>
        \A i \in 1..Len(trace) :
            CancelledSleep(i) => (i < Len(trace) /\ trace[i + 1].op = "check_status")

\* C23: a poll that ran out of attempts and a poll ended by a
\* KeyboardInterrupt are not errors.  trigger_review prints one result with
\* status success, the markers posted and the TIMEOUT or INTERRUPTED
\* next_step, writes nothing through the exception handler and exits 0,
\* also when the interruption arrives before the first check completed.
PollRanOut ==
    /\ Count("check_status") = POLL_MAX_ATTEMPTS
    /\ LastCall = [op |-> "check_status", outcome |-> "ok"]
    /\ HasItems(status_data) /\ ~PrimaryItemIn(status_data)
PollCancelled ==
    /\ LastCall.outcome = "KeyboardInterrupt"
    /\ LastCall.op \in {"sleep", "check_status"}
C23_TimeoutAndInterruptAreNotErrors ==
    (InPoll /\ Exited /\ (PollRanOut \/ PollCancelled)) =>
        /\ Len(stdout_json) = 1
        /\ exit_code = 0
        /\ stderr = <<>>
        /\ Result.status = "success"
        /\ "code" \notin DOMAIN Result /\ "error_type" \notin DOMAIN Result
        /\ Result.triggered_bots = REVIEW_COMMANDS
        /\ Result.initial_status = status_data
        /\ PollRanOut => Result.next_step = NEXT_TIMEOUT(Primary)
        /\ PollCancelled =>
              /\ Result.next_step = NEXT_INTERRUPTED
              /\ Count("check_status") = 1 /\ LastCall.op = "check_status"
                    => Result.initial_status.status = "interrupted"

\* The interruption arrived during the first check_status: there is no
\* observation, and the result is still a success with the INTERRUPTED
\* next_step.
C23_Witness ==
    /\ InPoll /\ Exited
    /\ trace[Len(trace)] = [op |-> "check_status", outcome |-> "KeyboardInterrupt"]
    /\ Count("check_status") = 1
    /\ Result.status = "success"
    /\ Result.initial_status.status = "interrupted"
    /\ Result.next_step = NEXT_INTERRUPTED

\* C24: every run of a command ends with exactly one result object on
\* stdout, and that object has a status field and a next_step.
C24_OneResultWithStatusAndNextStep ==
    Exited =>
        /\ Len(stdout_json) = 1
        /\ "status" \in DOMAIN Result
        /\ "next_step" \in DOMAIN Result

\* C25: an exception no component handles (a GithubException raised out of
\* a poll attempt, a FileNotFoundError raised out of _check_local_state) is
\* caught by main, which prints one error object holding only the generic
\* message and the exception type, writes the message and the traceback,
\* token masked, to stderr and nowhere else, and exits 1; nothing else
\* writes an error_type or those stderr lines.
GENERIC_MESSAGE == <<"An internal error occurred. See stderr for details.">>
UnhandledRaise ==
    /\ trace # <<>>
    /\ \/ InPoll /\ LastCall = [op |-> "check_status", outcome |-> "GithubException"]
       \/ /\ command = "trigger_review" /\ Did("git fetch")
          /\ LastCall.outcome = "FileNotFoundError"
          /\ LastCall.op \in {"git fetch", "git rev-parse HEAD", "git rev-parse @{u}",
                              "git rev-list"}
C25_UnhandledExceptionIsGeneric ==
    /\ UnhandledRaise =>
          /\ Exited
          /\ exit_code = 1
          /\ Len(stdout_json) = 1
          /\ Result = [status |-> "error", message |-> GENERIC_MESSAGE,
                       error_type |-> LastCall.outcome]
          /\ Len(stderr) = 2
          /\ stderr[1][1] = "CRITICAL ERROR: "
          /\ stderr[2][2] = LastCall.outcome
          /\ \A i \in 1..2 : TOKEN \notin Range(stderr[i])
          /\ Range(Result.message) \cap Range(SubSeq(stderr[1], 2, Len(stderr[1]))) = {}
    /\ (\/ \E i \in 1..Len(stderr) : stderr[i][1] = "CRITICAL ERROR: "
        \/ \E i \in 1..Len(stdout_json) : "error_type" \in DOMAIN stdout_json[i])
          => UnhandledRaise

\* The platform refused a poll attempt with an error whose text holds the
\* token: stderr has the text with the token masked, stdout the generic
\* object.
C25_Witness ==
    /\ InPoll /\ Exited
    /\ LastCall = [op |-> "check_status", outcome |-> "GithubException"]
    /\ stderr # <<>>
    /\ "********" \in Range(stderr[1])
    /\ Result.error_type = "GithubException"
    /\ Result.message = GENERIC_MESSAGE

\* C26: the status command is read-only.  A status process, started
\* afresh or to resume a poll that timed out or was interrupted, makes one
\* call, check_status, and no marker post, agent run, git push or git
\* fetch; the number of marker comments on the change request stays what
\* the trigger_review run left, however many status processes follow it.
Markers == Len(OwnComments)
C26_StatusNeverRetriggers ==
    command = "status" =>
        /\ \A i \in 1..Len(trace) : trace[i].op = "check_status"
        /\ Len(trace) <= 1
        /\ triggered_bots = <<>>
        /\ history = <<>> => Markers = 0
        /\ history # <<>> =>
              /\ history[1].command = "trigger_review"
              /\ history[1].markers = Len(REVIEW_COMMANDS)
              /\ \A i \in 1..Len(history) : history[i].markers = Markers
              /\ Posted = REVIEW_COMMANDS

\* A poll timed out or was interrupted and the caller ran status
\* MaxResumes times after it; each returned the feedback and the change
\* request still holds one marker per review command.
C26_Witness ==
    /\ Len(history) = MaxResumes
    /\ command = "status" /\ Exited
    /\ Result.status = "success"
    /\ Markers = Len(REVIEW_COMMANDS)
    /\ history[MaxResumes].command = "status"
    /\ history[MaxResumes].checks = 1

\* C27: the check_status calls of a trigger_review whose poll timed out
\* or was interrupted and of the status processes that resume it are
\* together at most POLL_MAX_ATTEMPTS.
RECURSIVE SumChecks(_)
SumChecks(h) == IF h = <<>> THEN 0 ELSE h[1].checks + SumChecks(Tail(h))
TotalChecks == SumChecks(history) + Count("check_status")
C27_ResumeKeepsAttemptBudget ==
    history # <<>> => TotalChecks <= POLL_MAX_ATTEMPTS

\* C28: a LoopCheckpoint exists while the poll loop runs, and once the
\* loop has returned it is absent exactly when the loop resolved; a
\* timeout or an interruption leaves it in place.
C28_CheckpointAbsentIffResolved ==
    InPoll =>
        /\ ~Exited => LoopCheckpoint # None
        /\ Returned => (LoopCheckpoint = None <=> Resolved)

(***************************************************************************)
(* The window of the status command.                                       *)
(***************************************************************************)
Since == since_dt(since_iso)
ItemsOf(type) == SelectSeq(Window, LAMBDA it : it.type = type)
InlineInWindow == {i \in 1..Len(review_comments) : review_comments[i].updated_at >= Since}
ReviewsInWindow ==
    {i \in 1..Len(reviews) :
        reviews[i].submitted_at # NoTime /\ reviews[i].submitted_at >= Since}
GeneralInWindow == {i \in 1..Len(issue_comments) : issue_comments[i].updated_at >= Since}

\* C29: the items of a status result are exactly the feedback updated at
\* or after since.  An inline comment is in when its updated_at >= since,
\* whenever it was created; a review is in when it has a submission time
\* and that time >= since, and a review with none is never in; the general
\* comments are those the platform returns for the same since.
C29_WindowIsUpdatedAtOrAfterSince ==
    StatusDone =>
        /\ Len(ItemsOf("inline_comment")) = Cardinality(InlineInWindow)
        /\ \A i \in InlineInWindow :
              \E it \in Range(ItemsOf("inline_comment")) :
                  /\ it.user = review_comments[i].user
                  /\ it.created_at = review_comments[i].created_at
                  /\ it.updated_at = review_comments[i].updated_at
        /\ Len(ItemsOf("review_summary")) = Cardinality(ReviewsInWindow)
        /\ \A i \in ReviewsInWindow :
              \E it \in Range(ItemsOf("review_summary")) :
                  /\ it.user = reviews[i].user
                  /\ it.state = reviews[i].state
                  /\ it.created_at = reviews[i].submitted_at
        /\ \A it \in Range(ItemsOf("review_summary")) :
              it.created_at # NoTime /\ it.state # "PENDING"
        /\ Len(ItemsOf("issue_comment")) = Cardinality(GeneralInWindow)
        /\ \A i \in GeneralInWindow :
              \E it \in Range(ItemsOf("issue_comment")) :
                  /\ it.user = issue_comments[i].user
                  /\ it.created_at = issue_comments[i].created_at
                  /\ it.updated_at = issue_comments[i].updated_at
        /\ Len(Window) = Cardinality(InlineInWindow) + Cardinality(ReviewsInWindow)
                            + Cardinality(GeneralInWindow)

\* since is the time 2: an inline comment created at 1 and edited at 2 is
\* in the result, a review submitted at 2 is in, and a review that was
\* never submitted is not.
C29_Witness ==
    /\ StatusDone
    /\ Since = 2
    /\ \E c \in Range(review_comments) : c.created_at = 1 /\ c.updated_at = 2
    /\ \E it \in Range(Window) :
          it.type = "inline_comment" /\ it.created_at = 1 /\ it.updated_at = 2
    /\ \E r \in Range(reviews) : r.submitted_at = 2
    /\ \E it \in Range(Window) : it.type = "review_summary" /\ it.created_at = 2
    /\ PendingReview \in Range(reviews)
    /\ Len(ItemsOf("review_summary")) = 1

(***************************************************************************)
(* A --since that is no timestamp.                                         *)
(***************************************************************************)
TimedReviews == {i \in 1..Len(reviews) : reviews[i].submitted_at # NoTime}
HistorySize == Len(issue_comments) + Len(review_comments) + Cardinality(TimedReviews)
ApiCallsOk == \A i \in 1..Len(trace) : trace[i].outcome = "ok"

\* C30: a since that does not parse never makes a fetch fail.  The status
\* command of pr_skill.py and the fetch command of pr_helper.py fall back
\* to the epoch, print a warning on stderr, treat every item of the
\* history as new and end with their normal result and exit code 0; the
\* only failure left is the platform's.
C30_InvalidSinceDegradesToEpoch ==
    (Exited /\ since_iso = INVALID_SINCE) =>
        /\ command = "status" =>
              /\ ApiCallsOk =>
                    /\ exit_code = 0
                    /\ Len(stdout_json) = 1
                    /\ Result.status = "success"
                    /\ Len(Result.items) = HistorySize
                    /\ Result = check_status(issue_comments, review_comments, reviews,
                                             EPOCH, Primary)
                    /\ stderr = << <<"[AUDIT] Warning: Invalid timestamp ", INVALID_SINCE,
                                     ", ignoring.">> >>
              /\ ~ApiCallsOk => LastCall.outcome = "GithubException"
              /\ "error_type" \notin DOMAIN Result
        /\ command = "fetch" =>
              /\ exit_code = 0
              /\ \E i \in 1..Len(stderr) :
                    stderr[i][1] = "Warning: invalid --since timestamp "
              /\ ApiCallsOk =>
                    /\ HistorySize > 0 =>
                          Len(stdout_json) = 1 /\ Len(stdout_json[1]) = HistorySize
                    /\ HistorySize = 0 => stdout_json = <<>>
              /\ stdout_json # <<>> =>
                    stdout_json[1] = filter_feedback_since(
                                         [reviews |-> IF trace[1].outcome = "ok"
                                                      THEN [i \in 1..Len(reviews) |->
                                                               ApiReview(reviews[i])]
                                                      ELSE <<>>,
                                          inline_comments |->
                                              IF trace[2].outcome = "ok"
                                              THEN [i \in 1..Len(review_comments) |->
                                                       ApiComment(review_comments[i])]
                                              ELSE <<>>,
                                          issue_comments |->
                                              IF trace[3].outcome = "ok"
                                              THEN [i \in 1..Len(issue_comments) |->
                                                       ApiComment(issue_comments[i])]
                                              ELSE <<>>],
                                         Iso(EPOCH, "Z"))

\* pr_helper fetch --since yesterday on a change request with a review
\* and an edited inline comment: both are printed as new.
C30_Witness ==
    /\ command = "fetch" /\ Exited
    /\ since_iso = INVALID_SINCE
    /\ ApiCallsOk
    /\ reviews # <<>> /\ review_comments # <<>>
    /\ HistorySize = MaxItems - 1
    /\ stdout_json # <<>>
    /\ Len(stdout_json[1]) = HistorySize

(***************************************************************************)
(* Failures inside the Sync Verifier.                                      *)
(***************************************************************************)
SyncVerifierOps ==
    {"git status", "git rev-parse HEAD", "git fetch", "git rev-parse @{u}", "git rev-list"}
SyncCallFailed ==
    /\ command = "trigger_review"
    /\ trace # <<>>
    /\ LastCall.op \in SyncVerifierOps
    /\ LastCall.outcome \in SubprocessErrors

\* C31: a git call of the Sync Verifier that cannot be started, exits
\* non-zero or times out makes the verifier return a failure value, which
\* trigger_review reports with print_error; no such failure escapes as an
\* exception, and the message reported holds no token.
C31_SyncFailuresAreClassified ==
    SyncCallFailed =>
        /\ Exited
        /\ is_safe_msg # None /\ is_safe_msg[1] = FALSE
        /\ Result.status = "error"
        /\ "error_type" \notin DOMAIN Result
        /\ stderr = <<>>
        /\ TOKEN \notin Range(Result.message)

ChangesRequestedInWindow ==
    {i \in ReviewsInWindow : reviews[i].state = "CHANGES_REQUESTED"}

\* C33: the status result carries the changes-requested instruction
\* exactly when a review submitted at or after since has the state
\* CHANGES_REQUESTED, whoever its author is and whatever was submitted
\* after it; the instruction is then never the stop, the new-feedback or
\* the wait instruction.
C33_ChangesRequestedIffAnyInWindow ==
    StatusDone =>
        /\ (Result.next_step = NEXT_CHANGES_REQUESTED) <=> (ChangesRequestedInWindow # {})
        /\ ChangesRequestedInWindow # {} =>
              /\ Result.next_step # NEXT_STOP
              /\ Result.next_step # NEXT_NEW_FEEDBACK
              /\ Result.next_step # NEXT_WAIT(Primary, Result.main_reviewer.state)

\* Another reviewer requested changes and approved afterwards, and the
\* primary reviewer approved last, all inside the window: the instruction
\* is still the changes-requested one.
C33_Witness ==
    /\ StatusDone
    /\ Len(reviews) = 3
    /\ ReviewsInWindow = {1, 2, 3}
    /\ reviews[1].user = OTHER_REVIEWER /\ reviews[1].state = "CHANGES_REQUESTED"
    /\ reviews[2].user = OTHER_REVIEWER /\ reviews[2].state = "APPROVED"
    /\ reviews[3].user = Primary /\ reviews[3].state = "APPROVED"
    /\ Result.main_reviewer.state = "APPROVED"
    /\ Result.next_step = NEXT_CHANGES_REQUESTED

(***************************************************************************)
(* The window of pr_helper's fetch.                                        *)
(***************************************************************************)
HelperSince == helper_since_dt(since_iso)
AtOrAfterHelperSince ==
    Cardinality({i \in 1..Len(issue_comments) : issue_comments[i].updated_at >= HelperSince})
      + Cardinality({i \in 1..Len(review_comments) :
                        review_comments[i].updated_at >= HelperSince})
      + Cardinality({i \in TimedReviews : reviews[i].submitted_at >= HelperSince})

\* C34: pr_helper's fetch reports as new exactly the items whose timestamp
\* is at or after since, an item whose timestamp equals since included.
C34_HelperKeepsItemsAtOrAfterSince ==
    (command = "fetch" /\ Exited /\ ApiCallsOk) =>
        /\ AtOrAfterHelperSince = 0 => stdout_json = <<>>
        /\ AtOrAfterHelperSince > 0 =>
              /\ stdout_json # <<>>
              /\ Len(stdout_json[1]) = AtOrAfterHelperSince

(***************************************************************************)
(* The since of the poll attempts.                                         *)
(***************************************************************************)
FirstMarkerTime == OwnComments[1].created_at
PrimaryPostedSinceFirstMarker ==
    \/ \E r \in Range(reviews) : r.user = Primary /\ r.submitted_at >= FirstMarkerTime
    \/ \E c \in Range(issue_comments) \cup Range(review_comments) :
          c.user = Primary /\ c.updated_at >= FirstMarkerTime
SinceOfAttempts ==
    (InPoll /\ OwnComments # <<>>) =>
        /\ start_time # NoTime
        /\ Did("git rev-list")
        /\ start_time <= FirstMarkerTime
        /\ (Exited /\ LastCall = [op |-> "check_status", outcome |-> "ok"]) =>
              /\ status_data.items = new_feedback(issue_comments, review_comments, reviews,
                                                  start_time)
              /\ PrimaryPostedSinceFirstMarker =>
                    PrimaryItemIn(status_data) /\ ~TimeoutFlag(status_data)
SinceCapturedOnce ==
    start_time' # start_time =>
        \/ /\ start_time = NoTime
           /\ command = "trigger_review"
           /\ pc \in {"trigger_review", "cls_revlist"}
           /\ OwnComments = <<>> /\ ~Did("check_status")
        \/ pc = "exit" /\ start_time' = NoTime

\* C35: every poll attempt of an online trigger_review asks with the same
\* since, the time captured once the sync check had succeeded and before
\* the first marker was posted.  It does not move between attempts, so
\* whatever the primary reviewer posts from the first marker on is among
\* the items of the attempt that follows and ends the poll.
C35_SinceFixedForAllAttempts == []SinceOfAttempts /\ [][SinceCapturedOnce]_vars

\* The first attempt found nothing of the primary reviewer, who posted
\* during the sleep that followed; the second attempt, asking with the
\* since of the first, found the item.
C35_Witness ==
    /\ InPoll /\ Exited
    /\ Count("check_status") = 2
    /\ env_events = 1
    /\ start_time <= FirstMarkerTime
    /\ PrimaryPostedSinceFirstMarker
    /\ HasItems(status_data) /\ PrimaryItemIn(status_data)
    /\ ~TimeoutFlag(status_data)

(***************************************************************************)
(* A marker that cannot be posted.                                         *)
(***************************************************************************)
MarkerFailed ==
    /\ command = "trigger_review"
    /\ trace # <<>>
    /\ LastCall = [op |-> "create_issue_comment", outcome |-> "GithubException"]

\* C36: when the posting of the k-th marker fails with a platform error,
\* trigger_review ends there with one error record and exit code 1, having
\* neither slept nor fetched; the k-1 markers posted before it are still on
\* the change request, in the order of REVIEW_COMMANDS, no further one has
\* been posted, and the record is no success and lists no triggered_bots.
C36_FailedMarkerEndsTheRun ==
    MarkerFailed =>
        /\ Exited /\ exit_code = 1
        /\ Len(stdout_json) = 1
        /\ Result.status = "error"
        /\ Result.message[1] = "GitHub API Error: "
        /\ DOMAIN Result = {"status", "message", "code"}
        /\ ~Did("sleep") /\ ~Did("check_status")
        /\ sleeps = 0 /\ attempt = 0
        /\ Len(OwnComments) = Count("create_issue_comment") - 1
        /\ Len(Posted) < Len(REVIEW_COMMANDS)
        /\ IsPrefix(Posted, REVIEW_COMMANDS)

\* The third marker failed: two markers stay on the change request.
C36_Witness ==
    /\ MarkerFailed /\ Exited
    /\ Count("create_issue_comment") = 3
    /\ Len(OwnComments) = 2
    /\ Result.status = "error"

(***************************************************************************)
(* What a timeout or an interruption changes in the last observation.      *)
(***************************************************************************)
PollEndsUnresolved ==
    /\ InPoll /\ pc # "exit" /\ pc' = "exit"
    /\ status_data' # None /\ HasItems(status_data')
    /\ TimeoutFlag(status_data') \/ InterruptFlag(status_data')
LastObservationKept ==
    LET completed == trace'[Len(trace')] = [op |-> "check_status", outcome |-> "ok"]
        last == IF completed
                THEN check_status(issue_comments, review_comments, reviews, start_time,
                                  DEFAULT_VALIDATION_REVIEWER)
                ELSE status_data
        timeout == TimeoutFlag(status_data')
        flag == IF timeout THEN "polling_timeout" ELSE "polling_interrupted"
    IN /\ last # None
       /\ DOMAIN status_data' = DOMAIN last \cup {flag, "next_step"}
       /\ \A k \in DOMAIN last \ {"next_step"} : status_data'[k] = last[k]
       /\ status_data'[flag] = TRUE
       /\ status_data'.next_step = IF timeout THEN NEXT_TIMEOUT(DEFAULT_VALIDATION_REVIEWER)
                                              ELSE NEXT_INTERRUPTED
       /\ stdout_json' = <<OnlineResult(status_data', triggered_bots)>>
       /\ stdout_json'[1].initial_status = status_data'
       /\ stdout_json'[1].next_step = status_data'.next_step

\* C37: a poll that ends by timeout or by interruption after a completed
\* attempt returns the items, new_item_count, main_reviewer and every other
\* field of the last completed attempt as they were, adds the timeout or
\* interrupted flag and replaces next_step alone: whatever the classifier
\* had instructed for that observation is overwritten by the TIMEOUT or
\* INTERRUPTED instruction.
C37_UnresolvedEndReplacesOnlyNextStep ==
    [][PollEndsUnresolved => LastObservationKept]_vars

\* The poll timed out on an observation holding a change request of a
\* reviewer other than the primary one: the classifier's instruction for
\* it was the changes-requested one, the result carries the TIMEOUT one.
C37_Witness ==
    /\ InPoll /\ Exited /\ PollTimedOut
    /\ HasItems(status_data)
    /\ \E it \in Range(status_data.items) :
          /\ it.user # Primary
          /\ "state" \in DOMAIN it /\ it.state = "CHANGES_REQUESTED"
    /\ check_status(issue_comments, review_comments, reviews, start_time,
                    DEFAULT_VALIDATION_REVIEWER).next_step = NEXT_CHANGES_REQUESTED
    /\ status_data.next_step = NEXT_TIMEOUT(DEFAULT_VALIDATION_REVIEWER)
    /\ Result.next_step = NEXT_TIMEOUT(DEFAULT_VALIDATION_REVIEWER)

(***************************************************************************)
(* The result of a local-mode trigger.                                     *)
(***************************************************************************)
LocalReturned == command = "trigger_review" /\ local /\ Exited /\ Did("check_status")
OnlineClassification ==
    check_status(issue_comments, review_comments, reviews, start_time,
                 DEFAULT_VALIDATION_REVIEWER)

\* C38: the result of a local-mode trigger that reached the fetch names the
\* synthetic reviewer with state COMMENTED as main_reviewer and carries the
\* generic new-feedback instruction, in the status data and at the top of
\* the result, whatever the online classification was: never the stop
\* instruction, never the changes-requested one.
C38_LocalResultIsAlwaysNewFeedback ==
    LocalReturned =>
        /\ Result.status = "success"
        /\ Result.initial_status = status_data
        /\ status_data.main_reviewer = [user |-> SYNTHETIC_USER, state |-> "COMMENTED"]
        /\ status_data.next_step = NEXT_NEW_FEEDBACK
        /\ Result.next_step = NEXT_NEW_FEEDBACK
        /\ Result.next_step # NEXT_STOP
        /\ Result.next_step # NEXT_CHANGES_REQUESTED

\* The fetch of a local run held a CHANGES_REQUESTED review, which the
\* online classification answers with the changes-requested instruction.
C38_Witness ==
    /\ LocalReturned
    /\ LastCall = [op |-> "check_status", outcome |-> "ok"]
    /\ \E it \in Range(status_data.items) : it.state = "CHANGES_REQUESTED"
    /\ OnlineClassification.next_step = NEXT_CHANGES_REQUESTED
    /\ Result.next_step = NEXT_NEW_FEEDBACK

\* C39: a platform failure of the one fetch of a local run is absorbed.
\* The run still prints one success result and exits 0, and the status
\* data it returns holds the synthetic local_review item alone, with
\* new_item_count 1.
C39_LocalFetchFailureIsAbsorbed ==
    (command = "trigger_review" /\ local /\ trace # <<>>
       /\ LastCall = [op |-> "check_status", outcome |-> "GithubException"]) =>
        /\ Exited /\ exit_code = 0
        /\ Len(stdout_json) = 1
        /\ Result.status = "success"
        /\ "code" \notin DOMAIN Result
        /\ Result.initial_status.status = "success"
        /\ Result.initial_status.items = <<local_review_item>>
        /\ local_review_item.type = "local_review"
        /\ local_review_item.user = SYNTHETIC_USER
        /\ Result.initial_status.new_item_count = 1

\* The fetch of a local run failed while the change request held feedback
\* newer than since.
C39_Witness ==
    /\ command = "trigger_review" /\ local /\ Exited
    /\ LastCall = [op |-> "check_status", outcome |-> "GithubException"]
    /\ new_feedback(issue_comments, review_comments, reviews, start_time) # <<>>
    /\ Result.status = "success"
    /\ Len(Result.initial_status.items) = 1

(***************************************************************************)
(* An earlier approval and nothing new.                                    *)
(***************************************************************************)
EmptyWindowAfterApproval ==
    StatusDone /\ Window = <<>> /\ LatestState = "APPROVED"
PollSawNoPrimaryItem ==
    /\ InPoll /\ trace # <<>>
    /\ LastCall = [op |-> "check_status", outcome |-> "ok"]
    /\ HasItems(status_data) /\ ~PrimaryItemIn(status_data)
    /\ status_data.main_reviewer.state = "APPROVED"

\* C40: check_status classifies on the history when the window is empty.
\* With no item at or after since and the primary reviewer's latest review
\* of the whole history APPROVED it returns the stop instruction, not the
\* wait-and-poll one, although the test of the poll loop is false on that
\* result; and a poll attempt that observed an approved primary reviewer
\* but no item of theirs in the window does not resolve: it goes on to the
\* sleep before the next attempt while attempts remain, and times out on
\* the last one.
C40_EmptyWindowStopsButPollGoesOn ==
    /\ EmptyWindowAfterApproval =>
          /\ Result.main_reviewer.state = "APPROVED"
          /\ Result.new_item_count = 0
          /\ Result.next_step = NEXT_STOP
          /\ Result.next_step # NEXT_WAIT(Primary, "APPROVED")
          /\ ~main_reviewer_has_new_feedback(Result, Primary)
    /\ PollSawNoPrimaryItem =>
          /\ ~Resolved
          /\ ~main_reviewer_has_new_feedback(status_data, Primary)
          /\ attempt < POLL_MAX_ATTEMPTS =>
                pc = "poll_sleep" /\ stdout_json = <<>> /\ ~TimeoutFlag(status_data)
          /\ attempt = POLL_MAX_ATTEMPTS => PollTimedOut

\* A status asked with a since later than the primary reviewer's approval,
\* the only entry of the history: the window is empty and the answer is
\* the stop instruction.
C40_Witness ==
    /\ EmptyWindowAfterApproval
    /\ reviews # <<>>
    /\ Since > reviews[Len(reviews)].submitted_at
    /\ Result.next_step = NEXT_STOP

====
